---- MODULE Spec2Model ----
(***************************************************************************)
(* A model of cfnbootstrap: the update-hook loop of cfn-hup                *)
(* (cfnbootstrap/update_hooks.py) with the helpers it calls, the           *)
(* construction engine of cfn-init (cfnbootstrap/construction.py), the     *)
(* retry decorator, the checksum-verifying response and extract_value of   *)
(* cfnbootstrap/util.py, the tools CommandTool (command_tool.py),          *)
(* SourcesTool (sources_tool.py), YumTool and RpmTool (rpm_tools.py), the  *)
(* signers of cfnbootstrap/auth.py and the file handling of                *)
(* cfnbootstrap/json_file_manager.py.                                      *)
(*                                                                         *)
(* Strings are sequences of tokens: a token is a separator (".", "\\",     *)
(* "|") or an indivisible run of other characters ("Resources", "R1").     *)
(* Python values are tagged tuples, so that values of different Python     *)
(* types can be compared with = as Python compares them with ==.           *)
(***************************************************************************)
EXTENDS Integers, Sequences, FiniteSets, TLC

VARIABLES
    hooks,            \* HookProcessor.hooks: the list of Hook objects
    disk,             \* the metadata_db file as it is between polls
    shelf,            \* the shelf opened by process() for the running poll
    resource_cache,   \* HookProcessor._resource_cache
    pc,               \* where process() is: "idle", "running", "done", "failed"
    idx,              \* position of the for loop of process() (1-based)
    log,              \* per hook: what _process_hook did in the running poll
    prev,             \* per hook: what _process_hook did in the poll before
    fetched,          \* per logicalId: successful describe_stack_resource returns in the running poll
    polls,            \* the number of polls begun
    model,            \* the metadata model handed to Contractor
    bpc,              \* where Contractor is: "new", "sorting", "constructed",
                      \* "building", "built", "raised"
    berr,             \* the exception that left Contractor ("" if none)
    rawConfigSets,    \* _processConfigSetsDefinition: the uncollapsed configSets
    dependencyTree,   \* _processConfigSetsDefinition: set -> the sets it still waits for
    reverseDependencyTree, \* _processConfigSetsDefinition: set -> the sets that reference it
    roots,            \* _processConfigSetsDefinition: the sets without open references
    configSets,       \* Contractor._configSets: set -> list of config names
    request,          \* the configSets argument of Contractor.build
    si,               \* position of the outer for loop of Contractor.build (1-based)
    ci,               \* position of the inner for loop (0: the set is not entered yet)
    ti,               \* position of CloudFormationCarpenter.build in its steps
                      \* (0: the Carpenter is not started yet)
    steps,            \* the steps of the running Carpenter, in the order it takes them
    changes,          \* the changes dictionary of the running Carpenter
    ran,              \* the tool invocations made so far, in order
    host,             \* the entities the tools have changed on the host so far
    max_tries,        \* retry_on_failure: the max_tries the decorator was made with
    seed,             \* the stream of numbers random.random() gives to _retry
    rpc,              \* where _retry is: "idle", "running", "returned", "raised"
    durations,        \* _retry: the sleep slots, in seconds
    slot,             \* _retry: position of `for i in durations` (1-based)
    attempts,         \* the calls of the wrapped function made so far
    n503,             \* the attempts that failed with HTTP 503 so far
    outcomes,         \* the kinds of outcome the attempts made so far have had
    lastOutcome,      \* the outcome of the latest attempt
    last_error,       \* _retry: the local last_error
    rerr,             \* what _retry raised (Unbound if it has not raised)
    url,              \* the URL the wrapped function fetches
    method,           \* what it reads the response with: "contents" or "write_to"
    response,         \* the response the latest attempt got
    dest,             \* the file write_to writes to: the chunks it holds
    action,           \* CommandTool.apply: the commands section it is called with
    cpc,              \* where CommandTool.apply is: "idle", "running", "returned", "raised"
    ck,               \* position of `for name in sorted(action.keys())` (1-based)
    commands_run,     \* CommandTool.apply: the local commands_run
    calls,            \* the processes the running apply has called, in order
    markers,          \* the files the commands have left on the host
    results,          \* what the calls of apply made so far returned, in order
    sources,          \* SourcesTool.apply: the sources section it is called with
    spc,              \* where SourcesTool.apply is: "idle", "running", "returned", "raised"
    sk,               \* position of the for loop of SourcesTool.apply (1-based)
    dirs_changed,     \* SourcesTool.apply: the local dirs_changed
    extracted,        \* what has been written to disk: <<"temp" or "dest", the
                      \* destination of the archive, the member, the path written>>
    serr,             \* why SourcesTool.apply raised ToolError ("" if it has not)
    yum_action,       \* YumTool.apply: the yum packages it is called with (`action`)
    installed,        \* the packages, with their versions, installed on the host
    available,        \* the packages, with their versions, yum can install
    ypc,              \* where YumTool.apply is: "idle", "filtering", "installing",
                      \* "returned", "raised"
    yum_order,        \* the order in which `for pkg_name in action` gives the names
    yk,               \* position of `for pkg_name in action` (1-based)
    pkg_specs,        \* YumTool.apply: the local pkg_specs
    pkgs_changed,     \* YumTool.apply: the local pkgs_changed
    yum_calls,        \* the yum commands apply has run, in order, with their return codes
    yum_result,       \* what apply returned or raised
    ev_metadata,      \* extract_value: the metadata argument
    ev_path,          \* extract_value: the path argument
    ev_pc,            \* where extract_value is: "called", "returned", "raised"
    ev_result,        \* what extract_value returned or raised
    auth_model,       \* the Authentication section AuthenticationConfig is made from
    apc,              \* where AuthenticationConfig is: "new", "constructing", "constructed"
    auth_order,       \* the order in which model.iteritems() gives the entries
    ak,               \* position of `for key, config in model.iteritems()` (1-based)
    _auths,           \* AuthenticationConfig._auths: key -> signer
    _bucketToAuth,    \* S3DefaultAuth._bucketToAuth: bucket -> signer
    basic_auths,      \* BasicDefaultAuth._auths: uri -> signer
    warnings,         \* the keys of the entries AuthenticationConfig has warned about
    signer,           \* what the latest call of get_auth returned
    metadata_creds,   \* per role: the version of the credentials the instance
                      \* metadata serves now
    fetches,          \* the calls of get_role_creds made so far
    role_calls,       \* the calls of S3RoleAuth.__call__ made so far
    sign_calls,       \* the calls of a signer made so far
    fetched_creds,    \* what the latest call of get_role_creds returned or raised
    signed,           \* the request the latest call of a signer returned, <<>> if it raised
    file_mode,        \* the permission bits of the state file (S_IMODE), -1 while it does not exist
    file_owned,       \* the state file belongs to the user of the process
    umask,            \* the umask of the process
    privileged,       \* the process runs as root
    jpc,              \* how the latest call of create or write ended: "returned", "raised"
    json_call,        \* the latest call: "create" or "write"
    currentFileMode,  \* setSafeMode: what os.stat gave in the latest call, -1 if it
                      \* was not reached
    rpm_action,       \* RpmTool.apply: the rpm packages it is called with (`action`)
    rpm_host,         \* per location: what rpm finds there, "unreadable", "installed"
                      \* or "missing"
    rpm_pc,           \* where RpmTool.apply is: "called", "filtering", "installing",
                      \* "returned", "raised"
    rpm_order,        \* the order in which action.iteritems() gives the packages
    rk,               \* position of `for pkg_name, loc in action.iteritems()` (1-based)
    rpm_pkgs,         \* RpmTool.apply: the local pkgs
    rpms_changed,     \* RpmTool.apply: the local pkgs_changed
    rpm_calls,        \* the rpm commands apply has run, in order, with their return codes
    rpm_result        \* what apply returned or raised

hupVars == <<hooks, disk, shelf, resource_cache, pc, idx, log, prev, fetched, polls>>

buildVars == <<model, bpc, berr, rawConfigSets, dependencyTree, reverseDependencyTree,
               roots, configSets, request, si, ci, ti, steps, changes, ran, host>>

retryVars == <<max_tries, seed, rpc, durations, slot, attempts, n503, outcomes, lastOutcome,
               last_error, rerr>>

fetchVars == <<url, method, response, dest>>

cmdVars == <<action, cpc, ck, commands_run, calls, markers, results>>

srcVars == <<sources, spc, sk, dirs_changed, extracted, serr>>

yumVars == <<yum_action, installed, available, ypc, yum_order, yk, pkg_specs, pkgs_changed,
             yum_calls, yum_result>>

extractVars == <<ev_metadata, ev_path, ev_pc, ev_result>>

authVars == <<auth_model, apc, auth_order, ak, _auths, _bucketToAuth, basic_auths, warnings,
              signer, metadata_creds, fetches, role_calls, sign_calls, fetched_creds, signed>>

jsonVars == <<file_mode, file_owned, umask, privileged, jpc, json_call, currentFileMode>>

rpmVars == <<rpm_action, rpm_host, rpm_pc, rpm_order, rk, rpm_pkgs, rpms_changed, rpm_calls,
             rpm_result>>

\* what the actions of one part of the program leave alone
notHupVars == <<buildVars, retryVars, fetchVars, cmdVars, srcVars, yumVars, extractVars,
                authVars, jsonVars, rpmVars>>
notBuildVars == <<hupVars, retryVars, fetchVars, cmdVars, srcVars, yumVars, extractVars,
                  authVars, jsonVars, rpmVars>>
notRetryVars == <<hupVars, buildVars, cmdVars, srcVars, yumVars, extractVars, authVars,
                  jsonVars, rpmVars>>
notFetchVars == <<hupVars, buildVars, cmdVars, srcVars, yumVars, extractVars, authVars,
                  jsonVars, rpmVars>>
notCmdVars == <<hupVars, buildVars, retryVars, fetchVars, srcVars, yumVars, extractVars,
                authVars, jsonVars, rpmVars>>
notSrcVars == <<hupVars, buildVars, retryVars, fetchVars, cmdVars, yumVars, extractVars,
                authVars, jsonVars, rpmVars>>
notYumVars == <<hupVars, buildVars, retryVars, fetchVars, cmdVars, srcVars, extractVars,
                authVars, jsonVars, rpmVars>>
notExtractVars == <<hupVars, buildVars, retryVars, fetchVars, cmdVars, srcVars, yumVars,
                    authVars, jsonVars, rpmVars>>
notAuthVars == <<hupVars, buildVars, retryVars, fetchVars, cmdVars, srcVars, yumVars,
                 extractVars, jsonVars, rpmVars>>
notJsonVars == <<hupVars, buildVars, retryVars, fetchVars, cmdVars, srcVars, yumVars,
                 extractVars, authVars, rpmVars>>
notRpmVars == <<hupVars, buildVars, retryVars, fetchVars, cmdVars, srcVars, yumVars,
                extractVars, authVars, jsonVars>>

vars == <<hupVars, buildVars, retryVars, fetchVars, cmdVars, srcVars, yumVars, extractVars,
          authVars, jsonVars, rpmVars>>

-----------------------------------------------------------------------------
(* Bounds *)

\* the number of polls after which the daemon is no longer followed
MaxPolls == 3

\* the largest max_tries a decorator is made with
MaxTries == 5

\* the number of HTTP 503 answers after which the server answers something else
Max503 == 5

-----------------------------------------------------------------------------
(* Python values *)

None == <<"none">>
PyInt(n) == <<"int", n>>
PyStr(s) == <<"str", s>>
PyDict(f) == <<"dict", f>>
PyDatetime(t) == <<"datetime", t>>

EmptyFcn == [x \in {} |-> None]

\* no Contractor exists: the values its variables keep while cfn-hup runs
BuildIdle ==
    /\ model = <<>>
    /\ bpc = "none"
    /\ berr = ""
    /\ rawConfigSets = <<>>
    /\ dependencyTree = <<>>
    /\ reverseDependencyTree = <<>>
    /\ roots = {}
    /\ configSets = <<>>
    /\ request = <<>>
    /\ si = 1
    /\ ci = 0
    /\ ti = 0
    /\ steps = <<>>
    /\ changes = <<>>
    /\ ran = <<>>
    /\ host = {}

\* a local that is not bound, and an exception that has not been raised
Unbound == [class |-> "unbound", code |-> None, msg |-> <<"", 0>>, retry_mode |-> ""]

\* no decorated function exists: the values the variables of _retry keep
RetryIdle ==
    /\ max_tries = 0
    /\ seed = "none"
    /\ rpc = "none"
    /\ durations = <<>>
    /\ slot = 1
    /\ attempts = 0
    /\ n503 = 0
    /\ outcomes = {}
    /\ lastOutcome = <<"", 0>>
    /\ last_error = Unbound
    /\ rerr = Unbound

\* no response has been received
NoResponse == [url |-> <<>>, status_code |-> 0, headers |-> EmptyFcn, body |-> <<>>]

\* nothing is fetched: the values the variables of a fetch keep
FetchIdle ==
    /\ url = <<>>
    /\ method = ""
    /\ response = NoResponse
    /\ dest = <<>>

\* no CommandTool is applied: the values its variables keep
CmdIdle ==
    /\ action = <<>>
    /\ cpc = "none"
    /\ ck = 1
    /\ commands_run = <<>>
    /\ calls = <<>>
    /\ markers = {}
    /\ results = <<>>

\* no SourcesTool is applied: the values its variables keep
SrcIdle ==
    /\ sources = <<>>
    /\ spc = "none"
    /\ sk = 1
    /\ dirs_changed = <<>>
    /\ extracted = <<>>
    /\ serr = ""

\* no YumTool is applied: the values its variables keep
YumIdle ==
    /\ yum_action = <<>>
    /\ installed = {}
    /\ available = {}
    /\ ypc = "none"
    /\ yum_order = <<>>
    /\ yk = 1
    /\ pkg_specs = <<>>
    /\ pkgs_changed = <<>>
    /\ yum_calls = <<>>
    /\ yum_result = <<"", 0>>

\* extract_value is not called: the values its variables keep
ExtractIdle ==
    /\ ev_metadata = <<>>
    /\ ev_path = <<>>
    /\ ev_pc = "none"
    /\ ev_result = <<>>

\* no AuthenticationConfig exists: the values its variables keep
AuthIdle ==
    /\ auth_model = <<>>
    /\ apc = "none"
    /\ auth_order = <<>>
    /\ ak = 1
    /\ _auths = <<>>
    /\ _bucketToAuth = <<>>
    /\ basic_auths = <<>>
    /\ warnings = {}
    /\ signer = <<>>
    /\ metadata_creds = <<>>
    /\ fetches = 0
    /\ role_calls = 0
    /\ sign_calls = 0
    /\ fetched_creds = <<>>
    /\ signed = <<>>

\* json_file_manager is not used: the values its variables keep
JsonIdle ==
    /\ file_mode = -1
    /\ file_owned = FALSE
    /\ umask = 0
    /\ privileged = FALSE
    /\ jpc = "none"
    /\ json_call = ""
    /\ currentFileMode = -1

\* no RpmTool is applied: the values its variables keep
RpmIdle ==
    /\ rpm_action = <<>>
    /\ rpm_host = <<>>
    /\ rpm_pc = "none"
    /\ rpm_order = <<>>
    /\ rk = 1
    /\ rpm_pkgs = <<>>
    /\ rpms_changed = <<>>
    /\ rpm_calls = <<>>
    /\ rpm_result = <<>>

\* no HookProcessor exists: the values its variables keep while cfn-init runs
HupIdle ==
    /\ hooks = <<>>
    /\ disk = <<>>
    /\ shelf = <<>>
    /\ resource_cache = <<>>
    /\ pc = "none"
    /\ idx = 1
    /\ log = <<>>
    /\ prev = <<>>
    /\ fetched = <<>>
    /\ polls = 0

\* bool(v) as Python evaluates `if v` / `not v`
Truthy(v) ==
    CASE v[1] = "none" -> FALSE
      [] v[1] = "int" -> v[2] # 0
      [] v[1] = "str" -> Len(v[2]) > 0
      [] v[1] = "dict" -> DOMAIN v[2] # {}
      [] v[1] = "datetime" -> TRUE

-----------------------------------------------------------------------------
(* str methods on token sequences *)

\* str.lower() of one token
LowerTok(t) ==
    CASE t = "Resources" -> "resources"
      [] t = "RESOURCES" -> "resources"
      [] t = "Metadata" -> "metadata"
      [] t = "METADATA" -> "metadata"
      [] t = "PhysicalResourceId" -> "physicalresourceid"
      [] t = "Stacks" -> "stacks"
      [] t = "Status" -> "status"
      [] t = "R1" -> "r1"
      [] t = "R2" -> "r2"
      [] OTHER -> t

Lower(s) == [i \in DOMAIN s |-> LowerTok(s[i])]

\* index of the first "." of s, 0 when there is none
FirstDot(s) ==
    IF \E i \in DOMAIN s : s[i] = "."
    THEN CHOOSE i \in DOMAIN s : s[i] = "." /\ \A j \in 1..(i - 1) : s[j] # "."
    ELSE 0

\* s.split('.', maxsplit)
RECURSIVE Split(_, _)
Split(s, maxsplit) ==
    IF maxsplit = 0 \/ FirstDot(s) = 0
    THEN <<s>>
    ELSE <<SubSeq(s, 1, FirstDot(s) - 1)>>
         \o Split(SubSeq(s, FirstDot(s) + 1, Len(s)), maxsplit - 1)

\* s.endswith(suffix), suffix one token
EndsWith(s, suffix) == Len(s) > 0 /\ s[Len(s)] = suffix

-----------------------------------------------------------------------------
(* util.extract_value *)

\* index of the first "." of s not preceded by a backslash, 0 when there is none
FirstUnescapedDot(s) ==
    LET IsSplit(i) == s[i] = "." /\ (i = 1 \/ s[i - 1] # "\\")
    IN IF \E i \in DOMAIN s : IsSplit(i)
       THEN CHOOSE i \in DOMAIN s : IsSplit(i) /\ \A j \in 1..(i - 1) : ~IsSplit(j)
       ELSE 0

\* DotSplit of an accessor that splits on every dot
DotSplitEveryDot(s) == Split(s, Len(s))

\* _dot_split.split(path): re.split on (?<!\\)\.
RECURSIVE DotSplit(_)
DotSplit(s) ==
    IF FirstUnescapedDot(s) = 0
    THEN <<s>>
    ELSE <<SubSeq(s, 1, FirstUnescapedDot(s) - 1)>>
         \o DotSplit(SubSeq(s, FirstUnescapedDot(s) + 1, Len(s)))

\* _slash_replace.sub('', s): drops every backslash that a "." follows
RECURSIVE SlashReplace(_)
SlashReplace(s) ==
    IF s = <<>> THEN <<>>
    ELSE IF s[1] = "\\" /\ Len(s) > 1 /\ s[2] = "."
         THEN SlashReplace(Tail(s))
         ELSE <<s[1]>> \o SlashReplace(Tail(s))

\* `a in b` for two strings
IsSubstring(a, b) ==
    \E i \in 0..(Len(b) - Len(a)) : SubSeq(b, i + 1, i + Len(a)) = a

\* the loop of extract_value over the split elements;
\* <<"return", v>> or <<"raise", exception>>
RECURSIVE ExtractWalk(_, _)
ExtractWalk(return_data, elements) ==
    IF elements = <<>> THEN <<"return", return_data>>
    ELSE LET element == Head(elements)
         IN CASE return_data[1] = "dict" ->
                   IF element \notin DOMAIN return_data[2]
                   THEN <<"return", None>>
                   ELSE ExtractWalk(return_data[2][element], Tail(elements))
              [] return_data[1] = "str" ->
                   \* substring test, then str[str] is a TypeError
                   IF ~IsSubstring(element, return_data[2])
                   THEN <<"return", None>>
                   ELSE <<"raise", "TypeError">>
              [] OTHER -> <<"raise", "TypeError">>   \* `in` on None, int, datetime

extract_value(metadata, path) ==
    IF path = <<>> THEN <<"return", metadata>>
    ELSE ExtractWalk(metadata,
                     [i \in DOMAIN DotSplit(path) |-> SlashReplace(DotSplit(path)[i])])

-----------------------------------------------------------------------------
(* HookProcessor._retrieve_path_data *)

\* PathError without the check of the part after the LogicalResourceId
PathErrorNoPartCheck(parts) ==
    IF Len(parts) < 2 THEN "UpdateError"
    ELSE IF Lower(parts[1]) # <<"resources">> THEN "UpdateError"
    ELSE ""

\* the checks of the split path that come before the resource is fetched:
\* the UpdateError raised, "" when none is
PathError(parts) ==
    IF Len(parts) < 2 THEN "UpdateError"
    ELSE IF Lower(parts[1]) # <<"resources">> THEN "UpdateError"
    ELSE IF Len(parts) = 2 THEN ""
    ELSE IF Lower(parts[3]) \notin {<<"metadata">>, <<"physicalresourceid">>}
         THEN "UpdateError"
    ELSE ""

\* CacheMiss of a processor that never looks into the cache
CacheMissAlways(logical_id, cache) == TRUE

\* `logical_id not in self._resource_cache`
CacheMiss(logical_id, cache) == logical_id \notin DOMAIN cache

\* InFlight of a processor that never skips
InFlightNever(status) == FALSE

\* `status and status.endswith('_IN_PROGRESS')`
InFlight(status) == Len(status) > 0 /\ EndsWith(status, "_IN_PROGRESS")

\* the value read from a fetched resource that is not in flight;
\* <<"return", v>> or <<"raise", exception>>
PathValue(resource, resourcePart, subpath) ==
    IF resourcePart = <<"metadata">>
    THEN IF ~Truthy(resource.metadata)
         THEN <<"return", None>>
         ELSE extract_value(resource.metadata, subpath)
    ELSE IF resource.resourceStatus = <<"DELETE", "_COMPLETE">>
         THEN <<"return", None>>
    ELSE IF resourcePart = <<"physicalresourceid">>
         THEN <<"return", resource.physicalResourceId>>
    ELSE <<"return", resource.lastUpdated>>

\* desc is what describe_stack_resource does if it is called:
\* <<"return", StackResourceDetail>> or <<"raise", exception>>.
\* The result: how the call ends (kind, val, exc), the cache after it, whether
\* describe_stack_resource was called, the logicalId it returned a detail for
\* (fetchedId, <<>> when it did not) and the resource used.
_retrieve_path_data(path, cache, desc) ==
    LET parts == Split(path, 3)
        fail(e, c, called) ==
            [kind |-> "raise", val |-> None, exc |-> e, cache |-> c,
             called |-> called, fetchedId |-> <<>>, detail |-> <<>>]
    IN IF PathError(parts) # "" THEN fail(PathError(parts), cache, FALSE)
       ELSE
       LET resourcePart == IF Len(parts) = 2 THEN <<>> ELSE Lower(parts[3])
           logical_id == parts[2]
           subpath == IF Len(parts) < 4 THEN <<>> ELSE parts[4]
           miss == CacheMiss(logical_id, cache)
       IN IF miss /\ desc[1] = "raise" THEN fail(desc[2], cache, TRUE)
          ELSE
          LET cache2 == IF miss THEN (logical_id :> desc[2]) @@ cache ELSE cache
              resource == cache2[logical_id]
              fetchedId == IF miss THEN <<logical_id>> ELSE <<>>
              value == PathValue(resource, resourcePart, subpath)
          IN IF InFlight(resource.resourceStatus)
             THEN [kind |-> "raise", val |-> None, exc |-> "InFlightStatusError",
                   cache |-> cache2, called |-> miss, fetchedId |-> fetchedId,
                   detail |-> <<resource>>]
             ELSE IF value[1] = "raise"
             THEN [kind |-> "raise", val |-> None, exc |-> value[2],
                   cache |-> cache2, called |-> miss, fetchedId |-> fetchedId,
                   detail |-> <<resource>>]
             ELSE [kind |-> "return", val |-> value[2], exc |-> "",
                   cache |-> cache2, called |-> miss, fetchedId |-> fetchedId,
                   detail |-> <<resource>>]

-----------------------------------------------------------------------------
(* HookProcessor._process_hook *)

\* the shelf key of a hook
HookKey(hook) == hook.name \o <<"|">> \o hook.path

\* shelf.get(key, None)
ShelfGet(sh, key) == IF key \in DOMAIN sh THEN sh[key] ELSE None

\* ShelfSet of a store that keeps nothing but the entry just written
ShelfSetAlone(sh, key, value) == key :> value

\* shelf[key] = value
ShelfSet(sh, key, value) == (key :> value) @@ sh

\* Classify without the `old_data != new_data` test of the update branch
ClassifyNoDiff(triggers, old_data, new_data) ==
    IF "post.add" \in triggers /\ ~Truthy(old_data) /\ Truthy(new_data)
    THEN "add"
    ELSE IF "post.remove" \in triggers /\ Truthy(old_data) /\ ~Truthy(new_data)
    THEN "remove"
    ELSE IF "post.update" \in triggers /\ Truthy(old_data) /\ Truthy(new_data)
    THEN "update"
    ELSE "none"

\* Classify of a processor that tests `is not None` where the code tests truth
ClassifyIsNotNone(triggers, old_data, new_data) ==
    IF "post.add" \in triggers /\ old_data = None /\ new_data # None
    THEN "add"
    ELSE IF "post.remove" \in triggers /\ old_data # None /\ new_data = None
    THEN "remove"
    ELSE IF "post.update" \in triggers /\ old_data # None /\ new_data # None
            /\ old_data # new_data
    THEN "update"
    ELSE "none"

\* the if/elif chain that decides whether the action runs:
\* "add", "remove", "update", or "none" for the else branch
Classify(triggers, old_data, new_data) ==
    IF "post.add" \in triggers /\ ~Truthy(old_data) /\ Truthy(new_data)
    THEN "add"
    ELSE IF "post.remove" \in triggers /\ Truthy(old_data) /\ ~Truthy(new_data)
    THEN "remove"
    ELSE IF "post.update" \in triggers /\ Truthy(old_data) /\ Truthy(new_data)
            /\ old_data # new_data
    THEN "update"
    ELSE "none"

\* CommitNoChange of a processor that returns without storing new_data
CommitNoChangeForgets(sh, key, new_data) == sh

\* CommitAfterAction of a processor that stores new_data whatever the exit code
CommitAfterActionAlways(sh, key, new_data, returncode) == ShelfSet(sh, key, new_data)

\* CommitAfterAction of a processor that never stores new_data after an action
CommitAfterActionNever(sh, key, new_data, returncode) == sh

\* the else branch: `shelf[hook.name + '|' + hook.path] = new_data`
CommitNoChange(sh, key, new_data) == ShelfSet(sh, key, new_data)

\* `if result.returncode: log.warn(...)  else: shelf[...] = new_data`
CommitAfterAction(sh, key, new_data, returncode) ==
    IF returncode # 0 THEN sh ELSE ShelfSet(sh, key, new_data)

\* the log entry of a hook that has not been processed in this poll
NoEntry ==
    [outcome |-> "none", exc |-> "", observed |-> FALSE, old |-> None,
     new |-> None, trans |-> "", run |-> FALSE, rc |-> -1,
     called |-> FALSE, detail |-> <<>>, env |-> EmptyFcn]

\* _as_string: a string is passed as it is, a datetime is put in ISO format,
\* anything else is dumped as JSON
_as_string(obj) ==
    IF obj[1] = "str" THEN obj
    ELSE IF obj[1] = "datetime" THEN PyStr(<<"isoformat", obj[2]>>)
    ELSE PyStr(<<"json", obj>>)

\* _retrieve_env_key of a processor that names every key METADATA
EnvKeyAlwaysMetadata(path) == "METADATA"

\* _retrieve_env_key: the key appended to CFN_OLD_ and CFN_NEW_; a part that is
\* neither metadata nor physicalresourceid falls off the end and gives None
_retrieve_env_key(path) ==
    LET parts == Split(path, 3)
    IN IF Len(parts) < 3 THEN "LAST_UPDATED"
       ELSE IF Lower(parts[3]) = <<"metadata">> THEN "METADATA"
       ELSE IF Lower(parts[3]) = <<"physicalresourceid">> THEN "PHYSICAL_RESOURCE_ID"
       ELSE "None"

\* os.environ of the daemon: it carries no CFN_ variable of its own
OsEnviron == <<"PATH">> :> PyStr(<<"/usr/bin">>)

\* the environment of the action: a copy of os.environ, plus CFN_OLD_<key> if
\* old_data is truthy and CFN_NEW_<key> if new_data is truthy
ActionEnv(environ, env_key, old_data, new_data) ==
    LET withOld == IF Truthy(old_data)
                   THEN (<<"CFN_OLD_", env_key>> :> _as_string(old_data)) @@ environ
                   ELSE environ
    IN IF Truthy(new_data)
       THEN (<<"CFN_NEW_", env_key>> :> _as_string(new_data)) @@ withOld
       ELSE withOld

\* proc is what ProcessHelper(action, env).call() does if it is called:
\* <<"exit", returncode>> or <<"raise", exception>>.
\* The result: the shelf and cache after the call, the exception that leaves
\* _process_hook ("" when it returns), and the log entry.
_process_hook(hook, sh, cache, desc, proc) ==
    LET r == _retrieve_path_data(hook.path, cache, desc)
        key == HookKey(hook)
        base == [NoEntry EXCEPT !.called = r.called, !.detail = r.detail]
    IN IF r.kind = "raise" /\ r.exc = "InFlightStatusError"
       THEN [shelf |-> sh, cache |-> r.cache, exc |-> "", fetchedId |-> r.fetchedId,
             entry |-> [base EXCEPT !.outcome = "skipped"]]
       ELSE IF r.kind = "raise"
       THEN [shelf |-> sh, cache |-> r.cache, exc |-> r.exc, fetchedId |-> r.fetchedId,
             entry |-> [base EXCEPT !.outcome = "raised", !.exc = r.exc]]
       ELSE
       LET new_data == r.val
           old_data == ShelfGet(sh, key)
           trans == Classify(hook.triggers, old_data, new_data)
           seen == [base EXCEPT !.observed = TRUE, !.old = old_data,
                                !.new = new_data, !.trans = trans]
           action_env == ActionEnv(OsEnviron, _retrieve_env_key(hook.path),
                                   old_data, new_data)
       IN IF trans = "none"
          THEN [shelf |-> CommitNoChange(sh, key, new_data), cache |-> r.cache,
                exc |-> "", fetchedId |-> r.fetchedId,
                entry |-> [seen EXCEPT !.outcome = "nochange"]]
          ELSE IF proc[1] = "raise"
          THEN [shelf |-> sh, cache |-> r.cache, exc |-> proc[2],
                fetchedId |-> r.fetchedId,
                entry |-> [seen EXCEPT !.outcome = "raised", !.exc = proc[2],
                                       !.run = TRUE, !.env = action_env]]
          ELSE [shelf |-> CommitAfterAction(sh, key, new_data, proc[2]),
                cache |-> r.cache, exc |-> "", fetchedId |-> r.fetchedId,
                entry |-> [seen EXCEPT !.outcome = "fired", !.run = TRUE,
                                       !.rc = proc[2], !.env = action_env]]

-----------------------------------------------------------------------------
(* Inputs: hook lists, resource details, action results *)

Triggers == {"post.add", "post.remove", "post.update"}

PathLastUpdated == <<"Resources", ".", "R2">>
PathMetadata == <<"Resources", ".", "R1", ".", "Metadata">>
PathMetadataX == <<"Resources", ".", "R1", ".", "Metadata", ".", "x">>
PathMetadataXY == <<"RESOURCES", ".", "R1", ".", "METADATA", ".", "x", ".", "y">>
PathPhysical == <<"resources", ".", "R1", ".", "PhysicalResourceId">>
PathOneSegment == <<"R1">>
PathNotResources == <<"Stacks", ".", "R1">>
PathBadPart == <<"Resources", ".", "R1", ".", "Status">>

ValidPaths == {PathLastUpdated, PathMetadata, PathMetadataX, PathMetadataXY, PathPhysical}
InvalidPaths == {PathOneSegment, PathNotResources, PathBadPart}

\* hook names are unique: the i-th hook of a list is named h<i>
HookName(i) == <<"h", i>>

Hook(name, triggers, path) == [name |-> name, triggers |-> triggers, path |-> path]

\* the hook lists the processor may be constructed with: every single hook,
\* and lists whose hooks share a resource, fail or name an unsupported path
SingleHookLists ==
    { <<Hook(HookName(1), t, p)>> : t \in SUBSET Triggers, p \in ValidPaths \cup InvalidPaths }

MultiHookLists ==
    { <<Hook(HookName(1), {"post.add", "post.update"}, PathMetadataX),
        Hook(HookName(2), {"post.remove"}, PathPhysical)>>,
      <<Hook(HookName(1), {"post.update"}, PathLastUpdated),
        Hook(HookName(2), {}, PathPhysical)>>,
      <<Hook(HookName(1), Triggers, PathPhysical),
        Hook(HookName(2), {}, PathNotResources),
        Hook(HookName(3), {}, PathMetadata)>>,
      <<Hook(HookName(1), {"post.update"}, PathMetadataXY),
        Hook(HookName(2), {"post.add"}, PathBadPart),
        Hook(HookName(3), Triggers, PathMetadata)>>,
      <<Hook(HookName(1), {}, PathMetadataXY),
        Hook(HookName(2), {"post.remove"}, PathPhysical),
        Hook(HookName(3), {"post.add"}, PathMetadata)>> }

HookLists == SingleHookLists \cup MultiHookLists

Detail(status, metadata, physicalResourceId, lastUpdated) ==
    [resourceStatus |-> status, metadata |-> metadata,
     physicalResourceId |-> physicalResourceId, lastUpdated |-> lastUpdated]

MetaX(n) == PyDict(<<"x">> :> PyInt(n))

\* the StackResourceDetails describe_stack_resource may return
Details ==
    { Detail(<<"CREATE", "_COMPLETE">>, MetaX(1), PyStr(<<"i-1">>), PyDatetime(1)),
      Detail(<<"UPDATE", "_COMPLETE">>, MetaX(2), PyStr(<<"i-2">>), PyDatetime(2)),
      Detail(<<"UPDATE", "_IN_PROGRESS">>, MetaX(2), PyStr(<<"i-2">>), PyDatetime(2)),
      Detail(<<"CREATE", "_COMPLETE">>, MetaX(0), None, PyDatetime(1)),
      Detail(<<"DELETE", "_COMPLETE">>, MetaX(2), PyStr(<<"i-2">>), PyDatetime(3)),
      Detail(<<"DELETE", "_COMPLETE">>, None, None, PyDatetime(3)) }

DescribeOutcomes == { <<"return", d>> : d \in Details } \cup { <<"raise", "IOError">> }

ProcessOutcomes == { <<"exit", 0>>, <<"exit", 1>>, <<"raise", "OSError">> }

-----------------------------------------------------------------------------
(* HookProcessor.process *)

\* Propagates of a loop without the `except Exception` clause
PropagatesAll(exc) == TRUE

\* Propagates of a loop without the `except UpdateError: raise` clause
PropagatesNone(exc) == FALSE

\* `except UpdateError: raise` before `except Exception: log.exception(...)`
Propagates(exc) == exc = "UpdateError"

\* `self._resource_cache = {}`
FreshCache(cache) == EmptyFcn

\* one more successful describe_stack_resource return for the ids of fetchedId
CountFetch(f, fetchedId) ==
    IF fetchedId = <<>> THEN f
    ELSE (fetchedId[1] :> (IF fetchedId[1] \in DOMAIN f THEN f[fetchedId[1]] + 1 ELSE 1)) @@ f

\* what is kept of a log entry for the next poll: the action ran and exited
\* non-zero on (old, new); or the poll left the hook settled on new (no action
\* was needed, or the action exited 0); or neither
Summary(entry) ==
    IF entry.outcome = "fired" /\ entry.rc # 0
    THEN <<"failed", entry.old, entry.new>>
    ELSE IF entry.outcome \in {"nochange", "fired"}
    THEN <<"settled", entry.new>>
    ELSE <<"unsettled">>

InitHup ==
    /\ hooks \in HookLists
    /\ disk = EmptyFcn
    /\ shelf = EmptyFcn
    /\ resource_cache = EmptyFcn
    /\ pc = "idle"
    /\ idx = 1
    /\ log = [i \in 1..Len(hooks) |-> NoEntry]
    /\ prev = [i \in 1..Len(hooks) |-> Summary(NoEntry)]
    /\ fetched = EmptyFcn
    /\ polls = 0
    /\ BuildIdle
    /\ RetryIdle
    /\ FetchIdle
    /\ CmdIdle
    /\ SrcIdle
    /\ YumIdle
    /\ ExtractIdle
    /\ AuthIdle
    /\ JsonIdle
    /\ RpmIdle

\* process() is entered: the shelf is opened and the cache reset
BeginPoll ==
    /\ pc # "running"
    /\ polls < MaxPolls
    /\ polls' = polls + 1
    /\ pc' = "running"
    /\ idx' = 1
    /\ shelf' = disk
    /\ resource_cache' = FreshCache(resource_cache)
    /\ prev' = [i \in 1..Len(hooks) |-> Summary(log[i])]
    /\ log' = [i \in 1..Len(hooks) |-> NoEntry]
    /\ fetched' = EmptyFcn
    /\ UNCHANGED <<hooks, disk>>
    /\ UNCHANGED notHupVars

\* one iteration of the for loop of process(): _process_hook and the except clauses
ProcessHook ==
    /\ pc = "running"
    /\ idx <= Len(hooks)
    /\ \E desc \in DescribeOutcomes, proc \in ProcessOutcomes :
         \E res \in {_process_hook(hooks[idx], shelf, resource_cache, desc, proc)} :
            /\ shelf' = res.shelf
            /\ resource_cache' = res.cache
            /\ log' = [log EXCEPT ![idx] = res.entry]
            /\ fetched' = CountFetch(fetched, res.fetchedId)
            /\ IF res.exc # "" /\ Propagates(res.exc)
               THEN \* the exception leaves process(); closing() closes the shelf
                    /\ pc' = "failed"
                    /\ idx' = idx
                    /\ disk' = res.shelf
               ELSE /\ pc' = "running"
                    /\ idx' = idx + 1
                    /\ disk' = disk
    /\ UNCHANGED <<hooks, prev, polls>>
    /\ UNCHANGED notHupVars

\* the for loop is over: process() returns and closing() closes the shelf
EndPoll ==
    /\ pc = "running"
    /\ idx > Len(hooks)
    /\ pc' = "done"
    /\ disk' = shelf
    /\ UNCHANGED <<hooks, shelf, resource_cache, idx, log, prev, fetched, polls>>
    /\ UNCHANGED notHupVars

NextHup == BeginPoll \/ ProcessHook \/ EndPoll

SpecHup == InitHup /\ [][NextHup]_vars

-----------------------------------------------------------------------------
(* cfnbootstrap/construction.py: the metadata model *)

\* an element of a configSets definition as json.load gives it: a string (a
\* config name), a dict (one key and its value) or a list
Str(name) == [kind |-> "str", key |-> "", name |-> name, items |-> <<>>]
Dict(key, name) == [kind |-> "dict", key |-> key, name |-> name, items |-> <<>>]
List(items) == [kind |-> "list", key |-> "", name |-> "", items |-> items]

\* {"ConfigSet": name}
Ref(name) == Dict("ConfigSet", name)

\* the objects a processed list holds
ConfigDefinition(name) == <<"ConfigDefinition", name>>
ConfigSetRef(name) == <<"ConfigSetRef", name>>

\* ConfigSet.__init__ and ConfigSet.addConfigDef: the definitions in order and
\* the names of the sets they reference
ConfigSet(defs) ==
    [configDefs |-> defs,
     dependencies |-> { defs[i][2] : i \in { j \in 1..Len(defs) : defs[j][1] = "ConfigSetRef" } }]

\* the keys of model['AWS::CloudFormation::Init']
InitModelKeys(m) ==
    m.configs \cup (IF m.configSets[1] = "absent" THEN {} ELSE {"configSets"})

\* the keys of model['AWS::CloudFormation::Init']['configSets']
ConfigSetsDef(m) == m.configSets[2]

\* _processConfigList: a string is a config name, a dict a reference, a list is
\* processed element by element into one ConfigSet; the first element that does
\* not resolve raises
RECURSIVE _processConfigList(_, _)
_processConfigList(configList, m) ==
    IF configList.kind = "str"
    THEN IF configList.name \notin InitModelKeys(m)
         THEN <<"raise", "NoSuchConfigurationError">>
         ELSE <<"return", ConfigSet(<<ConfigDefinition(configList.name)>>)>>
    ELSE IF configList.kind = "dict"
    THEN IF configList.key # "ConfigSet"
         THEN <<"raise", "ValueError">>
         ELSE IF configList.name \notin DOMAIN ConfigSetsDef(m)
         THEN <<"raise", "ValueError">>
         ELSE <<"return", ConfigSet(<<ConfigSetRef(configList.name)>>)>>
    ELSE IF configList.items = <<>>
    THEN <<"return", ConfigSet(<<>>)>>
    ELSE LET first == _processConfigList(Head(configList.items), m)
         IN IF first[1] = "raise" THEN first
            ELSE LET rest == _processConfigList(List(Tail(configList.items)), m)
                 IN IF rest[1] = "raise" THEN rest
                    ELSE <<"return", ConfigSet(first[2].configDefs \o rest[2].configDefs)>>

\* the first for loop of _processConfigSetsDefinition: every configList processed
ProcessedLists(m) ==
    [ n \in DOMAIN ConfigSetsDef(m) |-> _processConfigList(ConfigSetsDef(m)[n], m) ]

\* the sets whose list does not parse, and the sets that reference others
FailedSets(m) == { n \in DOMAIN ProcessedLists(m) : ProcessedLists(m)[n][1] = "raise" }
DependentSets(m) ==
    { n \in DOMAIN ProcessedLists(m) : ProcessedLists(m)[n][2].dependencies # {} }

\* _collapse of a sort that puts the configs of a referenced set after the
\* configs the referencing set declares behind the reference
RECURSIVE CollapseRefsLast(_, _, _)
CollapseRefsLast(configSetName, configList, collapsed) ==
    IF configList = <<>> THEN <<"return", <<>>>>
    ELSE LET config == Head(configList)
             rest == CollapseRefsLast(configSetName, Tail(configList), collapsed)
         IN IF rest[1] = "raise" THEN rest
            ELSE IF config[1] = "ConfigDefinition"
            THEN <<"return", <<config>> \o rest[2]>>
            ELSE IF config[2] \notin DOMAIN collapsed
            THEN <<"raise", "ValueError">>
            ELSE <<"return", rest[2] \o collapsed[config[2]]>>

\* _collapse: references replaced by the collapsed list of the set they name
RECURSIVE _collapse(_, _, _)
_collapse(configSetName, configList, collapsed) ==
    IF configList = <<>> THEN <<"return", <<>>>>
    ELSE LET config == Head(configList)
             rest == _collapse(configSetName, Tail(configList), collapsed)
         IN IF config[1] = "ConfigDefinition"
            THEN IF rest[1] = "raise" THEN rest
                 ELSE <<"return", <<config>> \o rest[2]>>
            ELSE IF config[2] \notin DOMAIN collapsed
            THEN <<"raise", "ValueError">>
            ELSE IF rest[1] = "raise" THEN rest
                 ELSE <<"return", collapsed[config[2]] \o rest[2]>>

-----------------------------------------------------------------------------
(* cfnbootstrap/construction.py: CloudFormationCarpenter *)

_packageTools == {"yum", "rubygems", "python", "rpm", "apt"}

_pkgOrder == <<"dpkg", "rpm", "apt", "yum">>

_serviceTools == {"sysvinit"}

\* list.index
IndexOf(seq, x) == CHOOSE i \in 1..Len(seq) : seq[i] = x

\* str.lower of a manager name
LowerName(name) ==
    CASE name = "Zypper" -> "zypper"
      [] name = "Python" -> "python"
      [] name = "Pacman" -> "pacman"
      [] OTHER -> name

\* the place of a lower-case manager name in the order of Python's string comparison
AlphaRank(name) ==
    IndexOf(<<"apt", "dpkg", "pacman", "python", "rpm", "rubygems", "yum", "zypper">>, name)

\* cmp of Python 2
Cmp(a, b) == IF a < b THEN -1 ELSE IF a > b THEN 1 ELSE 0

\* _pkgsort of a carpenter without _pkgOrder: every manager by its name
PkgsortByNameOnly(x, y) == Cmp(AlphaRank(LowerName(x)), AlphaRank(LowerName(y)))

\* _pkgsort, on manager names (x[0] and y[0] of the items)
_pkgsort(x, y) ==
    LET InOrder(n) == \E i \in 1..Len(_pkgOrder) : _pkgOrder[i] = n
    IN IF InOrder(x) /\ InOrder(y)
       THEN Cmp(IndexOf(_pkgOrder, x), IndexOf(_pkgOrder, y))
       ELSE IF InOrder(x) THEN -1
       ELSE IF InOrder(y) THEN 1
       ELSE Cmp(AlphaRank(LowerName(x)), AlphaRank(LowerName(y)))

\* every arrangement of a set in a sequence
Arrangements(S) ==
    { s \in [1..Cardinality(S) -> S] : \A i, j \in 1..Cardinality(S) : i # j => s[i] # s[j] }

\* sorted(..., cmp=_pkgsort) of the managers of a packages section
SortedManagers(S) ==
    CHOOSE s \in Arrangements(S) :
        \A i, j \in 1..Len(s) : i < j => _pkgsort(s[i], s[j]) <= 0

\* the order of the steps of CloudFormationCarpenter.build
Categories == <<"packages", "groups", "users", "sources", "files", "commands", "services">>

\* one step of CloudFormationCarpenter.build: a tool applied to a section (or to
\* the part of it of one manager), or the warning for a manager without a tool
Step(category, manager, names, tool) ==
    [category |-> category, manager |-> manager, names |-> names, tool |-> tool]

\* a section without managers: the step it contributes, none if it is empty
PlainSteps(config, category) ==
    IF config[category] = {} THEN <<>>
    ELSE <<Step(category, "", config[category], TRUE)>>

\* the steps of the packages section, managers in the order of _pkgsort
PackageSteps(config) ==
    LET order == SortedManagers(DOMAIN config.packages)
    IN [ i \in 1..Len(order) |->
           Step("packages", order[i], config.packages[order[i]],
                order[i] \in _packageTools) ]

\* the steps of the services section, in one of the orders iteritems may give
ServiceSteps(config) ==
    { [ i \in 1..Len(order) |->
          Step("services", order[i], config.services[order[i]],
               order[i] \in _serviceTools) ] :
      order \in Arrangements(DOMAIN config.services) }

\* StepsOf of a carpenter that applies the service tools before everything else
StepsOfServicesFirst(config) ==
    { svc \o PackageSteps(config) \o PlainSteps(config, "groups")
        \o PlainSteps(config, "users") \o PlainSteps(config, "sources")
        \o PlainSteps(config, "files") \o PlainSteps(config, "commands") :
      svc \in ServiceSteps(config) }

\* CloudFormationCarpenter.build as the sequence of its steps
StepsOf(config) ==
    { PackageSteps(config) \o PlainSteps(config, "groups") \o PlainSteps(config, "users")
        \o PlainSteps(config, "sources") \o PlainSteps(config, "files")
        \o PlainSteps(config, "commands") \o svc : svc \in ServiceSteps(config) }

\* `changes = collections.defaultdict(list)` and
\* `changes['packages'] = collections.defaultdict(list)`
NewChanges == "packages" :> <<>>

\* Record of a carpenter that files every result under 'commands'
RecordUnderCommands(ch, step, result) == ("commands" :> result) @@ ch

\* the assignment of a tool's result: changes['packages'][manager] for a package
\* tool, changes[category] for the others; a service tool's result is dropped
Record(ch, step, result) ==
    IF step.category = "packages"
    THEN [ch EXCEPT !["packages"] = (step.manager :> result) @@ ch["packages"]]
    ELSE IF step.category = "services" THEN ch
    ELSE (step.category :> result) @@ ch

-----------------------------------------------------------------------------
(* Inputs: metadata models, requested configSets, tool results *)

\* a config without any section
EmptyConfig ==
    [packages |-> <<>>, groups |-> {}, users |-> {}, sources |-> {}, files |-> {},
     commands |-> {}, services |-> <<>>]

\* the sections of the configs the models use
ConfigModels ==
    [ n \in {"config", "c1", "c2"} |->
        CASE n = "config" ->
               [packages |-> ("yum" :> {"httpd"}) @@ ("rpm" :> {"tool"}) @@ ("Zypper" :> {"z"})
                               @@ ("dpkg" :> {"d"}) @@ ("Pacman" :> {"p"})
                               @@ ("python" :> {"py"}),
                groups |-> {"g"}, users |-> {"u"}, sources |-> {"/opt"},
                files |-> {"/etc/f"}, commands |-> {"c"},
                services |-> ("sysvinit" :> {"httpd"}) @@ ("upstart" :> {"x"})]
          [] n = "c1" -> [EmptyConfig EXCEPT !.commands = {"c1cmd"}]
          [] n = "c2" -> [EmptyConfig EXCEPT !.files = {"f2"},
                                            !.services = ("sysvinit" :> {"s2"})] ]

\* model[name] read through ConfigDefinition.__init__; initModel.get("config",
\* dict()) gives the empty config when there is no 'config' key
ConfigOf(m, name) == IF name \in m.configs THEN ConfigModels[name] ELSE EmptyConfig

Model(init, sets, configs) == [init |-> init, configSets |-> sets, configs |-> configs]

SetNames == {"A", "B", "C"}

\* the lists a configSet n of a model may be defined with
ListChoices(n) ==
    LET next == CASE n = "A" -> "B" [] n = "B" -> "C" [] OTHER -> "A"
    IN { Str("c1"),
         List(<<Str("c1"), Ref(next), Str("c2")>>),
         List(<<List(<<Ref(next)>>), List(<<Str("c2"), List(<<Str("c1")>>)>>)>>),
         Ref(n),
         List(<<Ref("A"), Ref("A")>>),
         List(<<Str("c1"), Str("nosuch")>>),
         List(<<Dict("Ref", "A"), Ref(n)>>),
         List(<<Ref("D")>>) }

\* the metadata models Contractor is constructed with
Models ==
    { Model(FALSE, <<"absent">>, {}),
      Model(TRUE, <<"absent">>, {"config"}),
      Model(TRUE, <<"absent">>, {"c1"}),
      Model(TRUE, <<"notdict">>, {"config"}) }
    \cup { Model(TRUE, <<"dict", f>>, {"c1", "c2"}) :
           f \in UNION { { g \in [S -> UNION { ListChoices(n) : n \in S }] :
                             \A n \in S : g[n] \in ListChoices(n) } :
                         S \in (SUBSET SetNames) \ {{}} } }

\* the configSets arguments build is called with
Requests ==
    { <<>>, <<"default">>, <<"A">>, <<"B">>, <<"C">>, <<"A", "B">>, <<"B", "A">>,
      <<"A", "nosuch", "B">> }

\* what a tool does when it is applied: it returns the names it changed, or raises
ToolOutcomes(step) ==
    { <<"return", <<>>>> } \cup { <<"return", <<n>>>> : n \in step.names }
    \cup { <<"raise", "ToolError">>, <<"raise", "OSError">> }

-----------------------------------------------------------------------------
(* cfnbootstrap/construction.py: Contractor *)

\* Propagating of a Contractor.build that swallows what a tool raises
SwallowsToolErrors(exc) == FALSE

\* Contractor.build: `except BuildError: log.exception(...); raise`, and no
\* clause for any other exception, so whatever a tool raises leaves build
Propagating(exc) == TRUE

\* the error of an empty root set before the sort
NoRootsError(rootSet) == IF rootSet = {} THEN "CircularConfigSetDependencyError" ELSE ""

\* RemainderError of a sort that takes any end of the loop for a cycle
RemainderAlways(tree) == "CircularConfigSetDependencyError"

\* RemainderError of a sort that accepts whatever is left over
RemainderIgnored(tree) == ""

\* the error of a dependency tree that is not empty after the sort
RemainderError(tree) ==
    IF DOMAIN tree # {} THEN "CircularConfigSetDependencyError" ELSE ""

\* DefaultConfigSets of a Contractor that lists the config twice
DefaultConfigSetsTwice ==
    "default" :> <<ConfigDefinition("config"), ConfigDefinition("config")>>

\* `{ 'default' : [ConfigDefinition("config", initModel.get("config", dict()))]}`
DefaultConfigSets == "default" :> <<ConfigDefinition("config")>>

InitBuild ==
    /\ model \in Models
    /\ bpc = "new"
    /\ berr = ""
    /\ rawConfigSets = <<>>
    /\ dependencyTree = <<>>
    /\ reverseDependencyTree = <<>>
    /\ roots = {}
    /\ configSets = <<>>
    /\ request = <<>>
    /\ si = 1
    /\ ci = 0
    /\ ti = 0
    /\ steps = <<>>
    /\ changes = NewChanges
    /\ ran = <<>>
    /\ host = {}
    /\ HupIdle
    /\ RetryIdle
    /\ FetchIdle
    /\ CmdIdle
    /\ SrcIdle
    /\ YumIdle
    /\ ExtractIdle
    /\ AuthIdle
    /\ JsonIdle
    /\ RpmIdle

Raise(exc) ==
    /\ bpc' = "raised"
    /\ berr' = exc

\* Contractor.__init__ up to the while loop of _processConfigSetsDefinition
Construct ==
    /\ bpc = "new"
    /\ IF ~model.init
       THEN /\ Raise("ValueError")
            /\ UNCHANGED <<rawConfigSets, dependencyTree, reverseDependencyTree,
                           roots, configSets>>
       ELSE IF model.configSets[1] = "absent"
       THEN /\ configSets' = DefaultConfigSets
            /\ bpc' = "constructed"
            /\ UNCHANGED <<berr, rawConfigSets, dependencyTree,
                           reverseDependencyTree, roots>>
       ELSE IF model.configSets[1] = "notdict"
       THEN /\ Raise("ValueError")
            /\ UNCHANGED <<rawConfigSets, dependencyTree, reverseDependencyTree,
                           roots, configSets>>
       ELSE IF FailedSets(model) # {}
       THEN \* the first list that does not parse, in the order of iteritems
            /\ \E n \in FailedSets(model) : Raise(ProcessedLists(model)[n][2])
            /\ UNCHANGED <<rawConfigSets, dependencyTree, reverseDependencyTree,
                           roots, configSets>>
       ELSE \E p \in {ProcessedLists(model)} :
            /\ rawConfigSets' = [ n \in DOMAIN p |-> p[n][2].configDefs ]
            /\ dependencyTree' =
                 [ n \in DependentSets(model) |-> p[n][2].dependencies ]
            /\ reverseDependencyTree' =
                 [ d \in UNION { p[n][2].dependencies : n \in DOMAIN p } |->
                     { n \in DOMAIN p : d \in p[n][2].dependencies } ]
            /\ roots' = DOMAIN p \ DependentSets(model)
            /\ configSets' = <<>>
            /\ IF NoRootsError(DOMAIN p \ DependentSets(model)) # ""
               THEN Raise(NoRootsError(DOMAIN p \ DependentSets(model)))
               ELSE bpc' = "sorting" /\ berr' = berr
    /\ UNCHANGED <<model, request, si, ci, ti, steps, changes, ran, host>>
    /\ UNCHANGED notBuildVars

\* one iteration of the while loop: a root is popped and collapsed, and the
\* sets that waited for it alone become roots
KahnStep ==
    /\ bpc = "sorting"
    /\ roots # {}
    /\ \E configSet \in roots :
         LET collapsed == _collapse(configSet, rawConfigSets[configSet], configSets)
             dependents == IF configSet \in DOMAIN reverseDependencyTree
                           THEN reverseDependencyTree[configSet] ELSE {}
             freed == { d \in dependents : dependencyTree[d] = {configSet} }
         IN IF collapsed[1] = "raise"
            THEN /\ Raise(collapsed[2])
                 /\ roots' = roots \ {configSet}
                 /\ UNCHANGED <<configSets, dependencyTree, reverseDependencyTree>>
            ELSE /\ configSets' = (configSet :> collapsed[2]) @@ configSets
                 /\ reverseDependencyTree' =
                      [ d \in DOMAIN reverseDependencyTree \ {configSet} |->
                          reverseDependencyTree[d] ]
                 /\ dependencyTree' =
                      [ d \in DOMAIN dependencyTree \ freed |->
                          IF d \in dependents
                          THEN dependencyTree[d] \ {configSet}
                          ELSE dependencyTree[d] ]
                 /\ roots' = (roots \ {configSet}) \cup freed
                 /\ UNCHANGED <<bpc, berr>>
    /\ UNCHANGED <<model, rawConfigSets, request, si, ci, ti, steps, changes, ran, host>>
    /\ UNCHANGED notBuildVars

\* the while loop is over: what is left in dependencyTree is on a cycle
KahnEnd ==
    /\ bpc = "sorting"
    /\ roots = {}
    /\ IF RemainderError(dependencyTree) # ""
       THEN Raise(RemainderError(dependencyTree))
       ELSE bpc' = "constructed" /\ berr' = berr
    /\ UNCHANGED <<model, rawConfigSets, dependencyTree, reverseDependencyTree, roots,
                   configSets, request, si, ci, ti, steps, changes, ran, host>>
    /\ UNCHANGED notBuildVars

\* StartBuild of a Contractor that looks up every requested name before it
\* runs the first config
StartBuildChecksNames ==
    /\ bpc = "constructed"
    /\ request' \in Requests
    /\ IF \E k \in 1..Len(request') : request'[k] \notin DOMAIN configSets
       THEN Raise("NoSuchConfigSetError")
       ELSE bpc' = "building" /\ berr' = berr
    /\ si' = 1
    /\ ci' = 0
    /\ ti' = 0
    /\ UNCHANGED <<model, rawConfigSets, dependencyTree, reverseDependencyTree,
                   roots, configSets, steps, changes, ran, host>>
    /\ UNCHANGED notBuildVars

\* Contractor.build is called
StartBuild ==
    /\ bpc = "constructed"
    /\ request' \in Requests
    /\ bpc' = "building"
    /\ si' = 1
    /\ ci' = 0
    /\ ti' = 0
    /\ UNCHANGED <<model, berr, rawConfigSets, dependencyTree, reverseDependencyTree,
                   roots, configSets, steps, changes, ran, host>>
    /\ UNCHANGED notBuildVars

\* the head of the outer for loop: the next requested name is looked up
NextConfigSet ==
    /\ bpc = "building"
    /\ ci = 0
    /\ IF si > Len(request)
       THEN bpc' = "built" /\ UNCHANGED <<berr, ci>>
       ELSE IF request[si] \notin DOMAIN configSets
       THEN Raise("NoSuchConfigSetError") /\ UNCHANGED ci
       ELSE ci' = 1 /\ UNCHANGED <<bpc, berr>>
    /\ UNCHANGED <<model, rawConfigSets, dependencyTree, reverseDependencyTree, roots,
                   configSets, request, si, ti, steps, changes, ran, host>>
    /\ UNCHANGED notBuildVars

\* the config the inner for loop is at
CurrentConfig == configSets[request[si]][ci][2]

\* the head of the inner for loop: the set is left, or a Carpenter is made for
\* the next config and its build begins with a new changes dictionary
NextConfig ==
    /\ bpc = "building"
    /\ ci >= 1
    /\ ti = 0
    /\ IF ci > Len(configSets[request[si]])
       THEN /\ si' = si + 1
            /\ ci' = 0
            /\ UNCHANGED <<ti, steps, changes>>
       ELSE /\ steps' \in StepsOf(ConfigOf(model, CurrentConfig))
            /\ changes' = NewChanges
            /\ ti' = 1
            /\ UNCHANGED <<si, ci>>
    /\ UNCHANGED <<model, bpc, berr, rawConfigSets, dependencyTree,
                   reverseDependencyTree, roots, configSets, request, ran, host>>
    /\ UNCHANGED notBuildVars

\* what a tool that returns has changed on the host: the entities it names
Effects(step, result) ==
    { <<step.category, step.manager, result[i]>> : i \in 1..Len(result) }

\* the host after a tool has raised: the except clause of Contractor.build logs
\* and raises again, nothing is undone
AfterError(h) == h

\* the record of one tool invocation
Invocation(step, given, outcome) ==
    [set |-> si, pos |-> ci, config |-> CurrentConfig, category |-> step.category,
     manager |-> step.manager, given |-> given, outcome |-> outcome]

\* one step of CloudFormationCarpenter.build: the tool is applied and its result
\* recorded, or the manager without a tool is warned about
ApplyStep ==
    /\ bpc = "building"
    /\ ti >= 1
    /\ ti <= Len(steps)
    /\ LET step == steps[ti]
       IN IF ~step.tool
          THEN /\ ti' = ti + 1
               /\ UNCHANGED <<bpc, berr, changes, ran, host>>
          ELSE \E outcome \in ToolOutcomes(step) :
               /\ ran' = Append(ran, Invocation(step,
                                 IF step.category = "services" THEN changes ELSE <<>>,
                                 outcome))
               /\ host' = IF outcome[1] = "return"
                          THEN host \cup Effects(step, outcome[2])
                          ELSE AfterError(host)
               /\ IF outcome[1] = "raise" /\ Propagating(outcome[2])
                  THEN Raise(outcome[2]) /\ UNCHANGED <<ti, changes>>
                  ELSE /\ ti' = ti + 1
                       /\ changes' = IF outcome[1] = "raise" THEN changes
                                     ELSE Record(changes, step, outcome[2])
                       /\ UNCHANGED <<bpc, berr>>
    /\ UNCHANGED <<model, rawConfigSets, dependencyTree, reverseDependencyTree, roots,
                   configSets, request, si, ci, steps>>
    /\ UNCHANGED notBuildVars

\* CloudFormationCarpenter.build returns: the inner loop moves on
CarpenterReturns ==
    /\ bpc = "building"
    /\ ti >= 1
    /\ ti > Len(steps)
    /\ ci' = ci + 1
    /\ ti' = 0
    /\ UNCHANGED <<model, bpc, berr, rawConfigSets, dependencyTree,
                   reverseDependencyTree, roots, configSets, request, si, steps,
                   changes, ran, host>>
    /\ UNCHANGED notBuildVars

NextBuild ==
    \/ Construct
    \/ KahnStep
    \/ KahnEnd
    \/ StartBuild
    \/ NextConfigSet
    \/ NextConfig
    \/ ApplyStep
    \/ CarpenterReturns

SpecBuild == InitBuild /\ [][NextBuild]_vars

-----------------------------------------------------------------------------
(* cfnbootstrap/util.py: HTTP backoff-and-retry *)

\* the default of the max_sleep parameter of exponential_backoff and extend_backoff
max_sleep == 20

\* the streams of numbers random.random() may give, in tenths: 0.0 at every
\* draw, 0.9 at every draw, or the two in turn
RandomStreams == {"low", "high", "mixed"}

\* the k-th number of a stream, in tenths
Random(stream, k) ==
    CASE stream = "low" -> 0
      [] stream = "high" -> 9
      [] OTHER -> IF k % 2 = 0 THEN 9 ELSE 0

Min(a, b) == IF a < b THEN a ELSE b

\* Slot of a schedule whose sleeps double without a ceiling
SlotUncapped(stream, i) == Random(stream, i + 1) * (2^i - 1)

\* `random.random() * min(max_sleep, (2**i - 1))`, in tenths of a second; the
\* slot for i takes draw i + 1 of the stream
Slot(stream, i) == Random(stream, i + 1) * Min(max_sleep, 2^i - 1)

\* exponential_backoff: one slot for each i in range(0, max_tries)
exponential_backoff(tries, stream) == [ k \in 1..tries |-> Slot(stream, k - 1) ]

\* extend_backoff of a client that leaves the schedule as it is
ExtendNothing(d, stream) == d

\* extend_backoff: one more slot, for i = len(durations)
extend_backoff(d, stream) == Append(d, Slot(stream, Len(d)))

\* an exception: its class and, for a RemoteError, its code, the error it was
\* made from and its retry_mode
Error(class, code, msg, retry_mode) ==
    [class |-> class, code |-> code, msg |-> msg, retry_mode |-> retry_mode]

\* RemoteError.__init__, retry_mode='RETRIABLE' by default
RemoteError(code, msg, retry_mode) == Error("RemoteError", code, msg, retry_mode)

\* _extract_http_error of a client for which every status below 500 but 408 is final
ExtractHttpError404Terminal(status_code) ==
    RemoteError(PyInt(status_code), <<"HTTPError", status_code>>,
                IF status_code = 503 THEN "RETRIABLE_FOREVER"
                ELSE IF status_code < 500 /\ status_code # 408 THEN "TERMINAL"
                ELSE "RETRIABLE")

\* _extract_http_error of a client for which no status is final
ExtractHttpErrorNeverTerminal(status_code) ==
    RemoteError(PyInt(status_code), <<"HTTPError", status_code>>,
                IF status_code = 503 THEN "RETRIABLE_FOREVER" ELSE "RETRIABLE")

\* _extract_http_error: the RemoteError of a response with an error status
_extract_http_error(status_code) ==
    RemoteError(PyInt(status_code), <<"HTTPError", status_code>>,
                IF status_code = 503 THEN "RETRIABLE_FOREVER"
                ELSE IF status_code < 500 /\ status_code \notin {404, 408} THEN "TERMINAL"
                ELSE "RETRIABLE")

\* the statuses raise_for_status makes an HTTPError of, as far as they are told apart
StatusCodes == {400, 403, 404, 408, 500, 502, 503}

\* what one call of the wrapped function does: it returns, or raises one of the
\* exceptions _retry has a clause for, or another exception
AttemptOutcomes ==
    { <<"return", 0>>, <<"SSLError", 0>>, <<"ChecksumError", 0>>,
      <<"ConnectionError", 0>>, <<"Timeout", 0>>, <<"ValueError", 0>> }
    \cup { <<"HTTPError", c>> : c \in StatusCodes }

\* the except clauses of _retry, in their order: <<"raise", e>> if e leaves
\* _retry, <<"next", e>> if e becomes last_error and the loop goes on
AfterFailure(outcome) ==
    IF outcome[1] = "SSLError"
    THEN <<"raise", RemoteError(None, outcome, "TERMINAL")>>
    ELSE IF outcome[1] \in {"ChecksumError", "ConnectionError", "Timeout"}
    THEN <<"next", RemoteError(None, outcome, "RETRIABLE")>>
    ELSE IF outcome[1] = "HTTPError"
    THEN LET e == _extract_http_error(outcome[2])
         IN IF e.retry_mode = "TERMINAL" THEN <<"raise", e>> ELSE <<"next", e>>
    ELSE <<"raise", Error(outcome[1], None, outcome, "")>>

\* the decorator is made with max_tries; _retry has not been called
InitRetry ==
    /\ max_tries \in 1..MaxTries
    /\ seed \in RandomStreams
    /\ rpc = "idle"
    /\ durations = <<>>
    /\ slot = 1
    /\ attempts = 0
    /\ n503 = 0
    /\ outcomes = {}
    /\ lastOutcome = <<"", 0>>
    /\ last_error = Unbound
    /\ rerr = Unbound
    /\ HupIdle
    /\ BuildIdle
    /\ FetchIdle
    /\ CmdIdle
    /\ SrcIdle
    /\ YumIdle
    /\ ExtractIdle
    /\ AuthIdle
    /\ JsonIdle
    /\ RpmIdle

\* _retry is called: `durations = exponential_backoff(max_tries)`
CallRetry ==
    /\ rpc = "idle"
    /\ durations' = exponential_backoff(max_tries, seed)
    /\ rpc' = "running"
    /\ UNCHANGED <<max_tries, seed, slot, attempts, n503, outcomes, lastOutcome,
                   last_error, rerr>>
    /\ UNCHANGED fetchVars
    /\ UNCHANGED notRetryVars

\* what one iteration of `for i in durations` does when the wrapped function
\* ends with `outcome`: the return, or the except clause that catches it
AttemptStep(outcome) ==
    /\ attempts' = attempts + 1
    /\ outcomes' = outcomes \cup {outcome}
    /\ lastOutcome' = outcome
    /\ n503' = IF outcome = <<"HTTPError", 503>> THEN n503 + 1 ELSE n503
    /\ IF outcome[1] = "return"
       THEN /\ rpc' = "returned"
            /\ UNCHANGED <<durations, slot, last_error, rerr>>
       ELSE \E after \in {AfterFailure(outcome)} :
            IF after[1] = "raise"
            THEN /\ rpc' = "raised"
                 /\ rerr' = after[2]
                 /\ last_error' = IF outcome[1] = "HTTPError" THEN after[2]
                                  ELSE last_error
                 /\ UNCHANGED <<durations, slot>>
            ELSE /\ last_error' = after[2]
                 /\ IF after[2].retry_mode = "RETRIABLE_FOREVER"
                    THEN durations' = extend_backoff(durations, seed)
                    ELSE durations' = durations
                 /\ slot' = slot + 1
                 /\ UNCHANGED <<rpc, rerr>>
    /\ UNCHANGED <<max_tries, seed>>

\* one iteration of `for i in durations`: the sleep, the call of the wrapped
\* function and the except clauses
Attempt ==
    /\ rpc = "running"
    /\ slot <= Len(durations)
    /\ \E outcome \in AttemptOutcomes :
         /\ outcome = <<"HTTPError", 503>> => n503 < Max503
         /\ AttemptStep(outcome)
    /\ UNCHANGED fetchVars
    /\ UNCHANGED notRetryVars

\* the else clause of the for loop: every slot is used up
Exhausted ==
    /\ rpc = "running"
    /\ slot > Len(durations)
    /\ rpc' = "raised"
    /\ rerr' = IF last_error = Unbound
               THEN Error("UnboundLocalError", None, <<"", 0>>, "")
               ELSE last_error
    /\ UNCHANGED <<max_tries, seed, durations, slot, attempts, n503, outcomes,
                   lastOutcome, last_error>>
    /\ UNCHANGED fetchVars
    /\ UNCHANGED notRetryVars

NextRetry == CallRetry \/ Attempt \/ Exhausted

SpecRetry == InitRetry /\ [][NextRetry]_vars

-----------------------------------------------------------------------------
(* The checksum-verifying response of cfnbootstrap/util.py. A URL is a
   sequence of tokens: the scheme with its "://", the runs of the host name
   and the path. The value of an ETag header is a sequence of tokens: a quote,
   a dash or a run of other characters. A body is the sequence of the chunks
   that iter_content gives. *)

Quote == "\""
Dash == "-"

\* str.lower() of a token
lower(t) ==
    CASE t = "HTTPS://" -> "https://"
      [] t = "S3" -> "s3"
      [] t = "AMAZONAWS.COM" -> "amazonaws.com"
      [] OTHER -> t

\* the tokens that `[-\w.]+?\.` matches, those that `-[\w\d-]+` matches and
\* those that the unescaped `.` before amazonaws matches
HostLabels == {"bucket."}
RegionSuffixes == {"-us-west-2"}
AnyChar == {".", "x"}

\* is_s3_url: re.match of
\* https?://([-\w.]+?\.)?s3(-[\w\d-]+)?.amazonaws.com.* with re.IGNORECASE;
\* b and r say whether the two optional groups take a token
is_s3_url(u) ==
    \E b \in {0, 1}, r \in {0, 1} :
        /\ Len(u) >= 4 + b + r
        /\ lower(u[1]) \in {"http://", "https://"}
        /\ b = 1 => lower(u[2]) \in HostLabels
        /\ lower(u[2 + b]) = "s3"
        /\ r = 1 => lower(u[3 + b]) \in RegionSuffixes
        /\ lower(u[3 + b + r]) \in AnyChar
        /\ lower(u[4 + b + r]) = "amazonaws.com"

RECURSIVE lstrip(_, _)
lstrip(str, ch) ==
    IF str # <<>> /\ Head(str) = ch THEN lstrip(Tail(str), ch) ELSE str

RECURSIVE rstrip(_, _)
rstrip(str, ch) ==
    IF str # <<>> /\ str[Len(str)] = ch
    THEN rstrip(SubSeq(str, 1, Len(str) - 1), ch)
    ELSE str

\* str.strip(ch)
strip(str, ch) == rstrip(lstrip(str, ch), ch)

\* `ch in str`
Contains(str, ch) == \E i \in 1..Len(str) : str[i] = ch

\* hashlib.md5: the hexdigest of the data fed to it so far, which differs
\* for different data
hexdigest(data) ==
    CASE data = <<>> -> <<"d41d">>
      [] data = <<"a">> -> <<"0cc1">>
      [] data = <<"b">> -> <<"92eb">>
      [] data = <<"a", "b">> -> <<"187e">>
      [] data = <<"b", "a">> -> <<"0789">>
      [] data = <<"a", "a">> -> <<"4124">>
      [] data = <<"b", "b">> -> <<"21ad">>
      [] OTHER -> <<"ffff">>

\* requests.Response: url, status_code, headers (a header that is absent is
\* not in the domain) and the chunks of the body
Response(u, status_code, headers, body) ==
    [url |-> u, status_code |-> status_code, headers |-> headers, body |-> body]

\* check_status: raise_for_status raises HTTPError for a 4xx or 5xx status
check_status(resp) ==
    IF resp.status_code >= 400 /\ resp.status_code < 600
    THEN <<"raise", <<"HTTPError", resp.status_code>>>>
    ELSE <<"return", resp>>

\* EtagCheckedResponse.__init__ of a reader that takes the ETag of any URL
EtagOfAnyUrl(resp) ==
    LET etag == IF "etag" \in DOMAIN resp.headers
                THEN strip(resp.headers["etag"], Quote)
                ELSE None
    IN IF etag # None /\ etag # <<>> /\ Contains(etag, Dash) THEN None ELSE etag

\* EtagCheckedResponse.__init__: the value of self._etag
Etag(resp) ==
    LET etag == IF "etag" \in DOMAIN resp.headers /\ is_s3_url(resp.url)
                THEN strip(resp.headers["etag"], Quote)
                ELSE None
    IN IF etag # None /\ etag # <<>> /\ Contains(etag, Dash) THEN None ELSE etag

\* `if self._etag`: None and the empty string are false
HasEtag(etag) == etag # None /\ etag # <<>>

\* _check_digest after the digest was fed `data`: NoOpDigest if there is no
\* ETag, and then no comparison
_check_digest(etag, data) ==
    IF ~HasEtag(etag) THEN <<"return", 0>>
    ELSE IF etag # hexdigest(data) THEN <<"ChecksumError", 0>>
    ELSE <<"return", 0>>

\* the chunks a digest has been fed, after it is fed each chunk of `chunks`
RECURSIVE update(_, _)
update(data, chunks) ==
    IF chunks = <<>> THEN data ELSE update(Append(data, Head(chunks)), Tail(chunks))

\* EtagCheckedResponse(resp).contents(): the outcome; dest is not touched
contents(resp, file) ==
    \* content = self._response.content; self._digest.update(content)
    [outcome |-> _check_digest(Etag(resp), update(<<>>, resp.body)), dest |-> file]

\* EtagCheckedResponse(resp).write_to(dest): dest is truncated, every chunk
\* is written and fed to the digest, and the digest is checked last
write_to(resp, file) ==
    [outcome |-> _check_digest(Etag(resp), update(<<>>, resp.body)),
     dest |-> update(<<>>, resp.body)]

\* the wrapped function: EtagCheckedResponse(resp) and then contents() or
\* write_to(dest)
Read(resp, m, file) ==
    IF check_status(resp)[1] = "raise"
    THEN [outcome |-> check_status(resp)[2], dest |-> file]
    ELSE IF m = "contents" THEN contents(resp, file) ELSE write_to(resp, file)

Urls ==
    { <<"https://", "bucket.", "s3", ".", "amazonaws.com", "/key">>,
      <<"http://", "s3", "-us-west-2", ".", "amazonaws.com", "/bucket/key">>,
      <<"HTTPS://", "S3", ".", "AMAZONAWS.COM", "/key">>,
      <<"https://", "example.com", "/key">>,
      <<"ftp://", "s3", ".", "amazonaws.com", "/key">> }

Methods == {"contents", "write_to"}

Bodies == { <<"a">>, <<"a", "b">> }

\* ETag header values: the MD5 of a body in quotes and bare, the ETag of a
\* multipart upload, and an empty entity tag
EtagValues ==
    { <<Quote, "0cc1", Quote>>, <<"0cc1">>, <<Quote, "187e", Quote>>,
      <<Quote, "0cc1", Dash, "2", Quote>>, <<Quote, Quote>> }

HeaderSets == {EmptyFcn} \cup { "etag" :> v : v \in EtagValues }

\* what the server may answer to a GET of u
Responses(u) ==
    { Response(u, 200, h, b) : h \in HeaderSets, b \in Bodies }
      \cup { Response(u, c, EmptyFcn, <<>>) : c \in {403, 503} }

InitFetch ==
    /\ max_tries \in 1..MaxTries
    /\ seed \in RandomStreams
    /\ rpc = "idle"
    /\ durations = <<>>
    /\ slot = 1
    /\ attempts = 0
    /\ n503 = 0
    /\ outcomes = {}
    /\ lastOutcome = <<"", 0>>
    /\ last_error = Unbound
    /\ rerr = Unbound
    /\ url \in Urls
    /\ method \in Methods
    /\ response = NoResponse
    /\ dest = <<>>
    /\ HupIdle
    /\ BuildIdle
    /\ CmdIdle
    /\ SrcIdle
    /\ YumIdle
    /\ ExtractIdle
    /\ AuthIdle
    /\ JsonIdle
    /\ RpmIdle

\* one iteration of `for i in durations` around a wrapped function that gets
\* url and reads the response through EtagCheckedResponse
Fetch ==
    /\ rpc = "running"
    /\ slot <= Len(durations)
    /\ \E resp \in Responses(url) :
         \E res \in {Read(resp, method, dest)} :
           /\ res.outcome = <<"HTTPError", 503>> => n503 < Max503
           /\ response' = resp
           /\ dest' = res.dest
           /\ AttemptStep(res.outcome)
    /\ UNCHANGED <<url, method>>
    /\ UNCHANGED notFetchVars

NextFetch == CallRetry \/ Fetch \/ Exhausted

SpecFetch == InitFetch /\ [][NextFetch]_vars

-----------------------------------------------------------------------------
(* Properties of the hook loop *)

HookIdx == 1..Len(hooks)

\* the shelf key of the i-th hook
KeyOf(i) == HookKey(hooks[i])

\* the i-th hook has a shelf entry holding v
Holds(sh, i, v) == KeyOf(i) \in DOMAIN sh /\ sh[KeyOf(i)] = v

\* the shelf entry of the i-th hook is as it was when the poll began
EntryUntouched(i) ==
    /\ KeyOf(i) \in DOMAIN shelf <=> KeyOf(i) \in DOMAIN disk
    /\ ShelfGet(shelf, KeyOf(i)) = ShelfGet(disk, KeyOf(i))

\* C1: when the action of a hook has been run, the hook's shelf entry holds
\* newData if and only if the action exited with code 0; after a non-zero
\* exit (or an action that could not be started) the entry is what it was
\* before the poll, and reads as oldData.
C1_CommitIffExitZero ==
    \A i \in HookIdx :
        log[i].run =>
            /\ Holds(shelf, i, log[i].new) <=> log[i].rc = 0
            /\ log[i].rc # 0 =>
                 /\ ShelfGet(shelf, KeyOf(i)) = log[i].old
                 /\ pc = "running" => EntryUntouched(i)

\* a poll in which an action failed on (old, new), old truthy, followed by a
\* poll in which it exited 0 on the same new value, now stored
C1_Witness ==
    \E i \in HookIdx :
        /\ prev[i][1] = "failed" /\ Truthy(prev[i][2])
        /\ log[i].run /\ log[i].rc = 0 /\ log[i].new = prev[i][3]
        /\ Holds(shelf, i, log[i].new)

\* the three firing conditions, as the sentence states them
FiringCondition(triggers, oldData, newData) ==
    \/ "post.add" \in triggers /\ ~Truthy(oldData) /\ Truthy(newData)
    \/ "post.remove" \in triggers /\ Truthy(oldData) /\ ~Truthy(newData)
    \/ "post.update" \in triggers /\ Truthy(oldData) /\ Truthy(newData)
         /\ oldData # newData

\* C2: for a hook that is not skipped the action is run exactly when the add,
\* remove or update condition holds of (triggers, oldData, newData); a hook
\* for which no value was observed runs no action.
C2_FiredExactlyOnTransition ==
    \A i \in HookIdx :
        /\ log[i].observed =>
             (log[i].run <=> FiringCondition(hooks[i].triggers, log[i].old, log[i].new))
        /\ ~log[i].observed => ~log[i].run

\* an action run for a removal, and in the same list a hook whose value did
\* not change and ran nothing
C2_Witness ==
    /\ \E i \in HookIdx :
          /\ log[i].run /\ "post.remove" \in hooks[i].triggers
          /\ Truthy(log[i].old) /\ ~Truthy(log[i].new)
    /\ \E i \in HookIdx :
          /\ log[i].observed /\ ~log[i].run
          /\ Truthy(log[i].old) /\ log[i].old = log[i].new

\* C3: when a value was observed and no action was run, the hook's shelf
\* entry holds newData, also when the value changed without a matching
\* trigger and when newData is None.
C3_NoTransitionCommits ==
    \A i \in HookIdx :
        (log[i].observed /\ ~log[i].run) => Holds(shelf, i, log[i].new)

\* a truthy value replaced by None in the shelf, no post.remove trigger
C3_Witness ==
    \E i \in HookIdx :
        /\ log[i].observed /\ ~log[i].run
        /\ Truthy(log[i].old) /\ log[i].new = None
        /\ "post.remove" \notin hooks[i].triggers
        /\ Holds(shelf, i, None)

SawInProgress(i) ==
    /\ log[i].detail # <<>>
    /\ EndsWith(log[i].detail[1].resourceStatus, "_IN_PROGRESS")

\* C5: a hook whose resource status ends with _IN_PROGRESS is skipped: no
\* action is run, no value is observed, its shelf entry is as it was when the
\* poll began, no exception leaves _process_hook, and the loop goes on to the
\* next hook.
C5_InProgressSkips ==
    \A i \in HookIdx :
        SawInProgress(i) =>
            /\ log[i].outcome = "skipped"
            /\ ~log[i].run /\ ~log[i].observed
            /\ log[i].exc = ""
            /\ pc = "running" => EntryUntouched(i)
            /\ idx > i
            /\ pc # "failed" \/ log[idx].exc = "UpdateError"

\* a skipped hook with a stored value, and the hook after it processed
C5_Witness ==
    \E i \in HookIdx :
        /\ SawInProgress(i)
        /\ KeyOf(i) \in DOMAIN shelf /\ Truthy(shelf[KeyOf(i)])
        /\ i < Len(hooks) /\ log[i + 1].observed

\* the status of the resource the i-th hook used is DELETE_COMPLETE
SawDeleteComplete(i) ==
    /\ log[i].detail # <<>>
    /\ log[i].detail[1].resourceStatus = <<"DELETE", "_COMPLETE">>

\* C6: whatever the shape of the hook's path, the value observed for a
\* resource in status DELETE_COMPLETE is None.
C6_DeleteCompleteIsNone ==
    \A i \in HookIdx :
        (log[i].observed /\ SawDeleteComplete(i)) => log[i].new = None

Processed(i) == log[i].outcome # "none"

\* C7: when processing a hook raised an exception other than UpdateError, the
\* loop has gone on to the next hook: the poll is past that hook, it has not
\* failed unless a later hook raised UpdateError, and when it ends every hook
\* after it has been processed.
C7_OtherExceptionsAreCaught ==
    \A i \in HookIdx :
        (log[i].outcome = "raised" /\ log[i].exc # "UpdateError") =>
            /\ idx > i
            /\ \A j \in (i + 1)..(idx - 1) : Processed(j)
            /\ pc = "failed" => log[idx].exc = "UpdateError"
            /\ pc = "done" => \A j \in HookIdx : Processed(j)

\* the first hook failed on the fetch or on the value, the second hook could
\* not start its action, and the third was processed all the same
C7_Witness ==
    /\ Len(hooks) = 3
    /\ pc = "done"
    /\ log[1].outcome = "raised" /\ log[1].exc \in {"IOError", "TypeError"}
    /\ log[2].outcome = "raised" /\ log[2].exc = "OSError"
    /\ log[3].observed

\* the poll committed newData for the i-th hook
Committed(i) ==
    \/ log[i].outcome = "nochange"
    \/ log[i].outcome = "fired" /\ log[i].rc = 0

\* C8: when processing a hook raised UpdateError the poll has failed at that
\* hook: no later hook is processed, and what the hooks before it committed
\* is in the closed store.
C8_UpdateErrorFailsPoll ==
    \A i \in HookIdx :
        log[i].exc = "UpdateError" =>
            /\ pc = "failed" /\ idx = i
            /\ \A j \in HookIdx : j > i => ~Processed(j)
            /\ \A j \in HookIdx : (j < i /\ Committed(j)) => Holds(disk, j, log[j].new)

\* a poll that failed at its second hook after the first ran its action and
\* committed a truthy value; the third hook was left out
C8_Witness ==
    /\ Len(hooks) = 3
    /\ pc = "failed"
    /\ log[2].exc = "UpdateError"
    /\ log[1].outcome = "fired" /\ log[1].rc = 0 /\ Truthy(log[1].new)
    /\ Holds(disk, 1, log[1].new)
    /\ ~Processed(3)

\* path.split('.'): every dot-separated segment of a path
Segments(path) == Split(path, Len(path))

\* the paths the sentence calls unsupported
UnsupportedPath(path) ==
    \/ Len(Segments(path)) < 2
    \/ Lower(Segments(path)[1]) # <<"resources">>
    \/ /\ Len(Segments(path)) >= 3
       /\ Lower(Segments(path)[3]) \notin {<<"metadata">>, <<"physicalresourceid">>}

\* UpdateError for an unsupported path, before any describe_stack_resource call
RejectedBeforeFetch(i) ==
    UnsupportedPath(hooks[i].path) =>
        /\ log[i].exc = "UpdateError"
        /\ ~log[i].called
        /\ log[i].detail = <<>>

TwoSegmentPath(path) == Len(Segments(path)) = 2 /\ ~UnsupportedPath(path)

\* C9 as stated: an unsupported path raises UpdateError before any fetch, and
\* the value observed for a valid two-segment path is the resource's
\* lastUpdated.
C9_AsStated ==
    \A i \in HookIdx :
        Processed(i) =>
            /\ RejectedBeforeFetch(i)
            /\ (TwoSegmentPath(hooks[i].path) /\ log[i].observed) =>
                   log[i].new = log[i].detail[1].lastUpdated

\* C9 (amended): an unsupported path raises UpdateError before any fetch, and
\* the value observed for a valid two-segment path is the resource's
\* lastUpdated, or None when the resource status is DELETE_COMPLETE.
C9_PathValidation ==
    \A i \in HookIdx :
        Processed(i) =>
            /\ RejectedBeforeFetch(i)
            /\ (TwoSegmentPath(hooks[i].path) /\ log[i].observed) =>
                   log[i].new = IF SawDeleteComplete(i) THEN None
                                ELSE log[i].detail[1].lastUpdated

\* a hook rejected for the part after the LogicalResourceId, after a hook on a
\* supported path was processed
C9_Witness ==
    \E i \in HookIdx :
        /\ i > 1 /\ log[i - 1].detail # <<>>
        /\ Len(Segments(hooks[i].path)) = 3
        /\ Lower(Segments(hooks[i].path)[1]) = <<"resources">>
        /\ log[i].exc = "UpdateError" /\ ~log[i].called

\* the LogicalResourceId a supported path names
LogicalIdOf(path) == Segments(path)[2]

\* C10: within a poll describe_stack_resource returns at most once per
\* logicalId, the hooks naming one logicalId use the same resource detail,
\* and every cached detail was fetched in the running poll.
C10_FetchedOncePerPoll ==
    /\ \A l \in DOMAIN fetched : fetched[l] <= 1
    /\ DOMAIN resource_cache = DOMAIN fetched
    /\ \A i \in HookIdx :
          log[i].detail # <<>> =>
              /\ LogicalIdOf(hooks[i].path) \in DOMAIN resource_cache
              /\ log[i].detail[1] = resource_cache[LogicalIdOf(hooks[i].path)]
    /\ \A i, j \in HookIdx :
          (/\ log[i].detail # <<>> /\ log[j].detail # <<>>
           /\ LogicalIdOf(hooks[i].path) = LogicalIdOf(hooks[j].path)) =>
              log[i].detail = log[j].detail

\* in a later poll, a hook fetched the resource and the next hook, naming the
\* same logicalId, used the cached detail
C10_Witness ==
    \E i, j \in HookIdx :
        /\ polls >= 2
        /\ i < j
        /\ log[i].called /\ log[i].detail # <<>>
        /\ ~log[j].called /\ log[j].detail = log[i].detail
        /\ fetched[LogicalIdOf(hooks[i].path)] = 1

\* the key the sentence assigns to a path: LAST_UPDATED for two segments,
\* METADATA under .Metadata, PHYSICAL_RESOURCE_ID under .PhysicalResourceId
KeyOfPath(path) ==
    IF Len(Segments(path)) = 2 THEN "LAST_UPDATED"
    ELSE IF Lower(Segments(path)[3]) = <<"metadata">> THEN "METADATA"
    ELSE "PHYSICAL_RESOURCE_ID"

\* the CFN_OLD_ and CFN_NEW_ variables of an environment
CfnVars(environ) == { k \in DOMAIN environ : k[1] \in {"CFN_OLD_", "CFN_NEW_"} }

AbsentIfFalsy(v) == IF Truthy(v) THEN v ELSE None

\* C12: a falsy value that is present (0, an empty string or map) classifies as
\* the absent one does: from a truthy value to a falsy one the transition is a
\* remove, fired iff post.remove is a trigger, and never an update; from a falsy
\* value to a truthy one it is an add, fired iff post.add is a trigger
C12_FalsyIsAbsent ==
    \A i \in HookIdx :
        log[i].observed =>
            /\ log[i].trans = Classify(hooks[i].triggers, AbsentIfFalsy(log[i].old),
                                       AbsentIfFalsy(log[i].new))
            /\ (Truthy(log[i].old) /\ ~Truthy(log[i].new)) =>
                   /\ log[i].trans \in {"remove", "none"}
                   /\ log[i].trans = "remove" <=> "post.remove" \in hooks[i].triggers
            /\ (~Truthy(log[i].old) /\ Truthy(log[i].new)) =>
                   /\ log[i].trans \in {"add", "none"}
                   /\ log[i].trans = "add" <=> "post.add" \in hooks[i].triggers

\* a hook with all three triggers sees the stored value 1 become 0 and runs its
\* action as a remove
C12_Witness ==
    \E i \in HookIdx :
        /\ log[i].observed
        /\ hooks[i].triggers = Triggers
        /\ log[i].old = PyInt(1)
        /\ log[i].new = PyInt(0)
        /\ log[i].trans = "remove"
        /\ log[i].run

-----------------------------------------------------------------------------
(* Properties of the construction engine *)

\* the configSets a definition list references, at any depth of nesting
RECURSIVE RefsOf(_)
RefsOf(configList) ==
    IF configList.kind = "dict"
    THEN IF configList.key = "ConfigSet" THEN {configList.name} ELSE {}
    ELSE IF configList.kind = "str" THEN {}
    ELSE UNION { RefsOf(configList.items[i]) : i \in 1..Len(configList.items) }

\* the model defines configSets as a mapping
HasConfigSets == model.init /\ model.configSets[1] = "dict"

\* the sets reached from n by following k references or fewer, n not counted
RECURSIVE ReachedFrom(_, _)
ReachedFrom(n, k) ==
    IF k = 0 THEN {}
    ELSE LET direct == RefsOf(ConfigSetsDef(model)[n]) \cap DOMAIN ConfigSetsDef(model)
         IN direct \cup UNION { ReachedFrom(d, k - 1) : d \in direct }

\* the reference graph of the model has a cycle
HasCycle ==
    /\ HasConfigSets
    /\ \E n \in DOMAIN ConfigSetsDef(model) :
          n \in ReachedFrom(n, Cardinality(DOMAIN ConfigSetsDef(model)))

\* every config name and every reference of the model resolves
AllResolve ==
    /\ HasConfigSets
    /\ FailedSets(model) = {}

\* Contractor() has returned or raised
ConstructionOver == bpc \notin {"new", "sorting"}

\* C13 as stated: for every model with a cycle in its reference graph,
\* CircularConfigSetDependencyError is raised and no tool is invoked
C13_AsStated ==
    (HasCycle /\ ConstructionOver) =>
        /\ bpc = "raised"
        /\ berr = "CircularConfigSetDependencyError"
        /\ ran = <<>>

\* C13: a model with a cycle in its reference graph never gets a Contractor and
\* no tool is invoked for it; the error raised is
\* CircularConfigSetDependencyError if every config name and reference of the
\* model resolves, and the error of a list that does not parse otherwise
C13_CycleIsRejected ==
    (HasCycle /\ ConstructionOver) =>
        /\ bpc = "raised"
        /\ ran = <<>>
        /\ AllResolve => berr = "CircularConfigSetDependencyError"
        /\ ~AllResolve => berr \in {"NoSuchConfigurationError", "ValueError"}

\* a model with a cycle beside a set that has been collapsed: the error comes
\* from what is left over after the sort
C13_Witness ==
    /\ HasCycle
    /\ AllResolve
    /\ bpc = "raised"
    /\ berr = "CircularConfigSetDependencyError"
    /\ DOMAIN configSets # {}
    /\ DOMAIN dependencyTree # {}

\* the declaration list of a configSet with nested lists flattened in order and
\* each reference replaced, where it stands, by the linearisation of the set it
\* names (k bounds the depth of references followed)
RECURSIVE Linearise(_, _)
Linearise(configList, k) ==
    IF configList.kind = "str" THEN <<ConfigDefinition(configList.name)>>
    ELSE IF configList.kind = "dict"
    THEN IF k = 0 THEN <<>>
         ELSE Linearise(ConfigSetsDef(model)[configList.name], k - 1)
    ELSE IF configList.items = <<>> THEN <<>>
    ELSE Linearise(Head(configList.items), k)
           \o Linearise(List(Tail(configList.items)), k)

\* C14: for every acyclic model, once Contractor is constructed the
\* linearisation of each configSet is its declaration list, nested lists
\* flattened in order, with each reference replaced at its position by the full
\* linearisation of the set it names
C14_LinearisedInPlace ==
    (HasConfigSets /\ ~HasCycle /\ AllResolve /\ ConstructionOver) =>
        /\ DOMAIN configSets = DOMAIN ConfigSetsDef(model)
        /\ \A n \in DOMAIN configSets :
              configSets[n] = Linearise(ConfigSetsDef(model)[n],
                                        Cardinality(DOMAIN ConfigSetsDef(model)))

\* A declares c1, a reference to B and c2; B's three configs, one of them from a
\* nested list and one from its own reference to C, stand between c1 and c2
C14_Witness ==
    /\ bpc = "constructed"
    /\ HasConfigSets
    /\ DOMAIN configSets = {"A", "B", "C"}
    /\ ConfigSetsDef(model)["A"] = List(<<Str("c1"), Ref("B"), Str("c2")>>)
    /\ configSets["B"] = <<ConfigDefinition("c1"), ConfigDefinition("c2"),
                           ConfigDefinition("c1")>>
    /\ configSets["A"] = <<ConfigDefinition("c1")>> \o configSets["B"]
                           \o <<ConfigDefinition("c2")>>

\* the place of a category in packages, groups, users, sources, files,
\* commands, services
CatRank(category) == IndexOf(Categories, category)

\* invocation a is made at an earlier place of the build than invocation b, or
\* at the same place (two managers of one section)
NotAfter(a, b) ==
    \/ a.set < b.set
    \/ a.set = b.set /\ a.pos < b.pos
    \/ a.set = b.set /\ a.pos = b.pos /\ CatRank(a.category) <= CatRank(b.category)

\* the sections of a config that a tool is applied to
ToolSections(config) ==
    { c \in {"groups", "users", "sources", "files", "commands"} : config[c] # {} }
    \cup { c \in {"packages"} : DOMAIN config.packages \cap _packageTools # {} }
    \cup { c \in {"services"} : DOMAIN config.services \cap _serviceTools # {} }

\* every place of the request where a tool has to be applied
PlacesToRun ==
    UNION { UNION { { <<s, p, c>> :
                        c \in ToolSections(ConfigOf(model, configSets[request[s]][p][2])) } :
                    p \in 1..Len(configSets[request[s]]) } :
            s \in 1..Len(request) }

\* C15: the tool invocations of Contractor.build come in the order of the
\* requested configSets, within a set in the order of its linearised configs,
\* within a config in the order packages, groups, users, sources, files,
\* commands, services; each invocation but the last has returned before the
\* next one is made; a build that returns has applied a tool at every place
C15_BuildOrder ==
    /\ \A i \in 1..Len(ran) :
          /\ ran[i].set \in 1..Len(request)
          /\ ran[i].pos \in 1..Len(configSets[request[ran[i].set]])
          /\ ran[i].config = configSets[request[ran[i].set]][ran[i].pos][2]
          /\ i < Len(ran) => /\ NotAfter(ran[i], ran[i + 1])
                             /\ ran[i].outcome[1] = "return"
    /\ bpc = "built" =>
          { <<ran[i].set, ran[i].pos, ran[i].category>> : i \in 1..Len(ran) } = PlacesToRun

\* build(['B', 'A']) has returned: tools ran for B, then for A, and for some
\* config the file tool was followed by the service tool
C15_Witness ==
    /\ bpc = "built"
    /\ request = <<"B", "A">>
    /\ \E i, j \in 1..Len(ran) :
          /\ i + 1 < j
          /\ ran[i].set = 1 /\ ran[j].set = 2
          /\ ran[i].category = "files" /\ ran[i + 1].category = "services"
          /\ ran[i + 1].config = ran[i].config
          /\ ran[j].pos >= 2

\* C16: a tool that raises (ToolError, or anything else) ends the build: the
\* error leaves build, the invocation that raised is the last one made, the
\* loops stand where they stood, and what the earlier tools changed on the host
\* is still changed
C16_FailFastNoRollback ==
    \A i \in 1..Len(ran) :
        /\ ran[i].outcome[1] = "raise" =>
              /\ i = Len(ran)
              /\ bpc = "raised"
              /\ berr = ran[i].outcome[2]
              /\ si = ran[i].set /\ ci = ran[i].pos
        /\ ran[i].outcome[1] = "return" =>
              Effects([category |-> ran[i].category, manager |-> ran[i].manager],
                      ran[i].outcome[2]) \subseteq host

\* ToolError left build(['A', 'nosuch', 'B']) from the second config of A, after
\* a tool had changed something, with configs and configSets still to run
C16_Witness ==
    /\ bpc = "raised"
    /\ berr = "ToolError"
    /\ request = <<"A", "nosuch", "B">>
    /\ si = 1
    /\ ci = 2
    /\ ci < Len(configSets[request[si]])
    /\ host # {}
    /\ ran[Len(ran)].outcome = <<"raise", "ToolError">>

\* the invocations made before invocation j by the Carpenter that made j
EarlierOfCarpenter(j) ==
    { i \in 1..(j - 1) : ran[i].set = ran[j].set /\ ran[i].pos = ran[j].pos }

\* what those invocations reported, each result under the category of its tool
\* (and, for packages, under its manager)
Reported(j) ==
    LET mine == EarlierOfCarpenter(j)
        pkgs == { i \in mine : ran[i].category = "packages" }
        others == { i \in mine : ran[i].category # "packages" }
    IN [ c \in {"packages"} \cup { ran[i].category : i \in others } |->
           IF c = "packages"
           THEN [ m \in { ran[i].manager : i \in pkgs } |->
                    ran[CHOOSE i \in pkgs : ran[i].manager = m].outcome[2] ]
           ELSE ran[CHOOSE i \in others : ran[i].category = c].outcome[2] ]

\* C17: one CloudFormationCarpenter.build uses one changes dictionary: the
\* service tool is given exactly what the tools applied before it by the same
\* Carpenter reported, each result under its own category (a package tool's
\* under packages and its manager) and under no other; what the Carpenters of
\* other configs reported is not in it
C17_ChangesAccumulator ==
    \A j \in 1..Len(ran) :
        ran[j].category = "services" => ran[j].given = Reported(j)

\* the service tool of c2 is given the file that c2's file tool changed, after
\* the command tool of an earlier config reported a change
C17_Witness ==
    \E i, j \in 1..Len(ran) :
        /\ i < j
        /\ ran[i].set = ran[j].set /\ ran[i].pos < ran[j].pos
        /\ ran[i].outcome = <<"return", <<"c1cmd">>>>
        /\ ran[j].category = "services"
        /\ ran[j].given = ("packages" :> <<>>) @@ ("files" :> <<"f2">>)

\* the model has an Init section without a configSets key
NoConfigSetsKey == model.init /\ model.configSets[1] = "absent"

\* C18: for a model whose Init section has no 'configSets' key, Contractor has
\* exactly one configSet, 'default', holding the one ConfigDefinition of the
\* top-level 'config' entry; build(['default']) that has returned has run that
\* config once: one invocation for each of its tools and none for anything else
C18_DefaultConfigSet ==
    (NoConfigSetsKey /\ ConstructionOver) =>
        /\ berr \notin {"ValueError", "CircularConfigSetDependencyError",
                        "NoSuchConfigurationError"}
        /\ DOMAIN configSets = {"default"}
        /\ configSets["default"] = <<ConfigDefinition("config")>>
        /\ (request = <<"default">> /\ bpc = "built") =>
              /\ \A i \in 1..Len(ran) :
                    /\ ran[i].set = 1 /\ ran[i].pos = 1 /\ ran[i].config = "config"
                    /\ \A j \in 1..Len(ran) :
                          (ran[j].category = ran[i].category
                             /\ ran[j].manager = ran[i].manager) => j = i
              /\ { ran[i].category : i \in 1..Len(ran) }
                   = ToolSections(ConfigOf(model, "config"))

\* build(['default']) has returned for a model with a 'config' entry that has
\* every section: each of its tools was applied
C18_Witness ==
    /\ NoConfigSetsKey
    /\ "config" \in model.configs
    /\ request = <<"default">>
    /\ bpc = "built"
    /\ { ran[i].category : i \in 1..Len(ran) } = { Categories[k] : k \in 1..Len(Categories) }
    /\ host # {}

-----------------------------------------------------------------------------
(* Properties of retry_on_failure *)

\* _retry raised the RemoteError made from the latest attempt, with this mode
RaisedFromLatest(mode) ==
    /\ rpc = "raised"
    /\ rerr.class = "RemoteError"
    /\ rerr.retry_mode = mode
    /\ rerr.msg = lastOutcome

\* C19 as stated: an attempt that fails with any 4xx status other than 408, or
\* with an SSL error, is TERMINAL
C19_AsStated ==
    (\/ lastOutcome[1] = "SSLError"
     \/ /\ lastOutcome[1] = "HTTPError"
        /\ lastOutcome[2] \in 400..499
        /\ lastOutcome[2] # 408) => RaisedFromLatest("TERMINAL")

\* C19: an attempt that fails with a 4xx status other than 404 and 408, or with
\* an SSL error, is TERMINAL: its error is raised at once as a RemoteError and
\* the operation is not attempted again, whatever slots remain; a 404 is not
\* TERMINAL
C19_TerminalErrors ==
    /\ (\/ lastOutcome[1] = "SSLError"
        \/ /\ lastOutcome[1] = "HTTPError"
           /\ lastOutcome[2] \in 400..499
           /\ lastOutcome[2] \notin {404, 408}) => RaisedFromLatest("TERMINAL")
    /\ lastOutcome = <<"HTTPError", 404>> => ~RaisedFromLatest("TERMINAL")
    /\ \A o \in outcomes \ {lastOutcome} :
          /\ o[1] # "SSLError"
          /\ o[1] = "HTTPError" => o[2] \notin (400..499) \ {404, 408}

\* the first attempt of a function decorated with max_tries = 3 failed with
\* HTTP 403: the error was raised with two slots unused
C19_Witness ==
    /\ max_tries = 3
    /\ lastOutcome = <<"HTTPError", 403>>
    /\ RaisedFromLatest("TERMINAL")
    /\ attempts = 1
    /\ slot = 1
    /\ Len(durations) = 3

\* the outcomes the sentence lists as RETRIABLE
RetriableOutcomes ==
    { <<"ConnectionError", 0>>, <<"Timeout", 0>>, <<"ChecksumError", 0>>,
      <<"HTTPError", 404>>, <<"HTTPError", 408>> }
    \cup { <<"HTTPError", c>> : c \in (500..599) \ {503} }

\* C20: as long as every attempt has failed with a RETRIABLE error the
\* operation is attempted again until it has been attempted max_tries times,
\* and then, and only then, the error of the latest attempt is raised as a
\* RemoteError
C20_RetriableExhausts ==
    (outcomes # {} /\ outcomes \subseteq RetriableOutcomes) =>
        /\ attempts <= max_tries
        /\ rpc \in {"running", "raised"}
        /\ rpc = "raised" => /\ attempts = max_tries
                             /\ RaisedFromLatest("RETRIABLE")
        /\ (rpc = "running" /\ attempts < max_tries) => slot <= Len(durations)
        /\ (rpc = "running" /\ attempts = max_tries) => slot > Len(durations)

\* three attempts with three different RETRIABLE errors, a 404 among them, and
\* the error of the third is raised
C20_Witness ==
    /\ max_tries = 3
    /\ attempts = 3
    /\ Cardinality(outcomes) = 3
    /\ outcomes \subseteq RetriableOutcomes
    /\ <<"HTTPError", 404>> \in outcomes
    /\ lastOutcome = <<"Timeout", 0>>
    /\ RaisedFromLatest("RETRIABLE")

\* _retry gave up: the for loop ran out of slots and last_error was raised
GaveUp == rpc = "raised" /\ slot > Len(durations)

\* C21: every attempt uses one slot and every 503 adds one, so the schedule has
\* max_tries slots and one more for each 503 received; as long as the server
\* has answered nothing but 503 an attempt is left; and _retry gives up only
\* after max_tries attempts and one more for each 503
C21_Extends503 ==
    rpc \in {"running", "returned", "raised"} =>
        /\ Len(durations) = max_tries + n503
        /\ rpc = "running" => slot = attempts + 1
        /\ (rpc = "running" /\ outcomes = {<<"HTTPError", 503>>}) =>
              Len(durations) - attempts = max_tries
        /\ GaveUp => attempts = max_tries + n503

\* max_tries is 5, the server has answered 503 five times and then 200: the
\* sixth attempt returned
C21_Witness ==
    /\ max_tries = 5
    /\ n503 = 5
    /\ outcomes = {<<"HTTPError", 503>>, <<"return", 0>>}
    /\ attempts = 6
    /\ rpc = "returned"

(* C22: a call wrapped by retry_on_failure terminates whatever the server
   answers. The loop of retry_on_failure ends when it has used every slot of
   the schedule, so it terminates for every sequence of answers only if each
   failed attempt that leaves the loop running leaves strictly fewer unused
   slots than before, and the schedule bounded. Stated as that step property:
   every attempt after which the loop is still running shortens the unused
   part of the schedule. *)
Unused == Len(durations) - slot + 1

C22_EveryFailureUsesUpSchedule ==
    [][(rpc = "running" /\ rpc' = "running" /\ attempts' = attempts + 1)
          => (Len(durations') - slot' + 1) < Unused]_vars

(* C23: exponential_backoff gives exactly max_tries slots (five for
   max_tries = 5); slot i, counted from 0, is 0 when min(max_sleep, 2^i - 1)
   is 0 and otherwise at least 0 and below min(max_sleep, 2^i - 1); slot 0 is
   0, so nothing is slept before the first attempt; a slot appended for a 503
   obeys the same formula with i the length of the schedule before it, and no
   slot exceeds max_sleep. Sleeps are in tenths of a second. *)
Ceiling(i) == 10 * Min(max_sleep, 2^i - 1)

InSlotRange(d, i) == IF Ceiling(i) = 0 THEN d = 0 ELSE 0 <= d /\ d < Ceiling(i)

C23_BackoffSlots ==
    /\ Len(exponential_backoff(max_tries, seed)) = max_tries
    /\ max_tries = 5 => Len(exponential_backoff(5, seed)) = 5
    /\ rpc \in {"running", "returned", "raised"} =>
         /\ \A k \in 1..Len(durations) :
               /\ InSlotRange(durations[k], k - 1)
               /\ durations[k] <= 10 * max_sleep
         /\ durations[1] = 0
         /\ SubSeq(durations, 1, max_tries) = exponential_backoff(max_tries, seed)

\* a schedule of five slots extended by five 503 answers, whose last slots
\* are held down by max_sleep
C23_Witness ==
    /\ max_tries = 5
    /\ n503 = 5
    /\ Len(durations) = 10
    /\ durations[10] = 9 * max_sleep
    /\ 2^9 - 1 > max_sleep

-----------------------------------------------------------------------------
(* Properties of the checksum-verifying response *)

\* the latest attempt got a response with a good status and read it
Answered == attempts > 0 /\ response.status_code = 200

S3Urls ==
    { <<"https://", "bucket.", "s3", ".", "amazonaws.com", "/key">>,
      <<"http://", "s3", "-us-west-2", ".", "amazonaws.com", "/bucket/key">>,
      <<"HTTPS://", "S3", ".", "AMAZONAWS.COM", "/key">> }

\* the response is from an S3 URL and carries an ETag without "-"
EtagWithoutDash ==
    /\ url \in S3Urls
    /\ "etag" \in DOMAIN response.headers
    /\ \A i \in 1..Len(response.headers["etag"]) : response.headers["etag"][i] # Dash

\* the ETag without the quotes around it
Unquoted == SelectSeq(response.headers["etag"], LAMBDA t : t # Quote)

\* the MD5 of the body is the ETag
Md5IsEtag == hexdigest(response.body) = Unquoted

\* the latest attempt ended with ChecksumError, which did not leave _retry:
\* it became a RETRIABLE last_error and the loop went to its next slot, where
\* it fetches again unless the schedule is used up
ChecksumRetried ==
    /\ lastOutcome = <<"ChecksumError", 0>>
    /\ last_error = RemoteError(None, <<"ChecksumError", 0>>, "RETRIABLE")
    /\ slot = attempts + 1
    /\ rpc = "running" \/ GaveUp

(* C24 as stated: for a response from an S3 URL with an ETag without "-",
   contents and write_to return normally only if the MD5 of the body is the
   ETag without its quotes, and otherwise ChecksumError is raised and
   retried. *)
C24_AsStated ==
    (Answered /\ EtagWithoutDash) =>
        /\ lastOutcome = <<"return", 0>> => Md5IsEtag
        /\ ~Md5IsEtag => ChecksumRetried

(* C24, amended: for a response from an S3 URL with an ETag that has no "-"
   and is not empty once its quotes are stripped, contents and write_to
   return normally only if the MD5 of the body is that ETag, and otherwise
   ChecksumError is raised, which retry_on_failure takes as RETRIABLE and
   goes on to the next attempt; for another URL, a missing ETag, an ETag with
   "-" or an empty ETag nothing is compared: the read returns normally and no
   ChecksumError is raised. *)
C24_EtagChecked ==
    Answered =>
        IF EtagWithoutDash /\ Unquoted # <<>>
        THEN /\ lastOutcome = <<"return", 0>> => (Md5IsEtag /\ rpc = "returned")
             /\ ~Md5IsEtag => ChecksumRetried
             /\ lastOutcome \in {<<"return", 0>>, <<"ChecksumError", 0>>}
        ELSE lastOutcome = <<"return", 0>> /\ rpc = "returned"

\* a body whose MD5 is not the ETag was written by write_to, ChecksumError was
\* raised and the loop is at its second attempt
C24_Witness ==
    /\ Answered
    /\ EtagWithoutDash /\ Unquoted # <<>>
    /\ ~Md5IsEtag
    /\ method = "write_to"
    /\ attempts = 1
    /\ rpc = "running"
    /\ slot = 2 /\ Len(durations) >= 2

-----------------------------------------------------------------------------
(* CommandTool of cfnbootstrap/command_tool.py. A command name and the value
   of ignoreErrors are strings of single characters. The host is the set of
   files the commands have made. *)

\* the number of calls of apply with the same commands that are followed
MaxApplies == 2

PyBool(b) == <<"bool", b>>

\* a string of single characters
Chars(s) == PyStr(s)

\* ord() of the characters of the command names
Ord(c) ==
    CASE c = "0" -> 48
      [] c = "1" -> 49
      [] c = "9" -> 57
      [] c = "B" -> 66
      [] c = "a" -> 97

\* x < y as Python compares two strings
RECURSIVE StrLess(_, _)
StrLess(x, y) ==
    IF y = <<>> THEN FALSE
    ELSE IF x = <<>> THEN TRUE
    ELSE IF Head(x) # Head(y) THEN Ord(Head(x)) < Ord(Head(y))
    ELSE StrLess(Tail(x), Tail(y))

\* the keys in the order shorter names first, then as Python compares them
KeysShortestFirst(keys) ==
    CHOOSE s \in Arrangements(keys) :
        \A i, j \in 1..Len(s) : i < j =>
            \/ Len(s[i]) < Len(s[j])
            \/ Len(s[i]) = Len(s[j]) /\ StrLess(s[i], s[j])

\* sorted(action.keys())
sorted(keys) ==
    CHOOSE s \in Arrangements(keys) : \A i, j \in 1..Len(s) : i < j => StrLess(s[i], s[j])

\* str.lower() of one character
LowerChar(c) ==
    CASE c = "T" -> "t"
      [] c = "R" -> "r"
      [] c = "U" -> "u"
      [] c = "E" -> "e"
      [] c = "Y" -> "y"
      [] c = "S" -> "s"
      [] c = "N" -> "n"
      [] c = "O" -> "o"
      [] OTHER -> c

\* _trues, but for True and 1, which are the numbers equal to 1
TrueStrings == { <<"t", "r", "u", "e">>, <<"y", "e", "s">>, <<"y">>, <<"1">> }

\* interpret_boolean of a tool that takes ignoreErrors as Python's bool() does
InterpretAsBool(input) ==
    CASE input[1] = "none" -> FALSE
      [] input[1] \in {"bool", "int"} -> input[2] # 0
      [] input[1] = "str" -> input[2] # <<>>

\* interpret_boolean
interpret_boolean(input) ==
    CASE input[1] = "none" -> FALSE
      [] input[1] \in {"bool", "int"} -> input[2] = 1
      [] input[1] = "str" ->
            /\ input[2] # <<>>
            /\ strip([i \in DOMAIN input[2] |-> LowerChar(input[2][i])], " ") \in TrueStrings

\* attributes.get(key): None if the key is absent
Get(attributes, key) == IF key \in DOMAIN attributes THEN attributes[key] ELSE None

\* ProcessHelper(cmd).call() on a host with the files m: the return code and
\* the files afterwards
Call(cmd, m) ==
    CASE cmd = "true" -> [returncode |-> 0, files |-> m]
      [] cmd = "false" -> [returncode |-> 1, files |-> m]
      [] cmd = "touch f" -> [returncode |-> 0, files |-> m \cup {"f"}]
      [] cmd = "mkdir d" -> IF "d" \in m
                            THEN [returncode |-> 1, files |-> m]
                            ELSE [returncode |-> 0, files |-> m \cup {"d"}]
      [] cmd = "test -e f" -> [returncode |-> IF "f" \in m THEN 0 ELSE 1, files |-> m]
      [] cmd = "test ! -e f" -> [returncode |-> IF "f" \in m THEN 1 ELSE 0, files |-> m]

\* the values ignoreErrors is given
IgnoreValues ==
    { PyBool(1), PyBool(0), PyInt(1), PyInt(0), PyInt(2),
      Chars(<<"t", "r", "u", "e">>), Chars(<<"T", "R", "U", "E">>),
      Chars(<<"Y", "e", "s">>), Chars(<<" ", "y", " ">>), Chars(<<"1">>),
      Chars(<<"n", "o">>), Chars(<<>>) }

\* entries of a commands section without ignoreErrors
PlainAttributeSets ==
    { "command" :> "true",
      "command" :> "false",
      "command" :> "mkdir d",
      "test" :> "test -e f",
      ("command" :> "touch f") @@ ("test" :> "test ! -e f"),
      ("command" :> "true") @@ ("test" :> "test -e f"),
      ("command" :> "false") @@ ("test" :> "test -e f") }

\* entries of a failing command with ignoreErrors
IgnoringAttributeSets(values) ==
    { ("command" :> "false") @@ ("ignoreErrors" :> v) : v \in values }

CommandNames == { <<"1", "0">>, <<"9">>, <<"B">>, <<"a">> }

\* the sections with the commands `keys`, their entries taken from `entries`
Sections(keys, entries) == [keys -> entries]

\* the commands sections: none, one or two commands with any of the entries,
\* or three commands with ignoreErrors, if given, True or "no"
Actions ==
    UNION { Sections(keys, PlainAttributeSets \cup IgnoringAttributeSets(IgnoreValues)) :
              keys \in { k \in SUBSET CommandNames : Cardinality(k) <= 2 } }
      \cup
    UNION { Sections(keys, PlainAttributeSets
                             \cup IgnoringAttributeSets({PyBool(1), Chars(<<"n", "o">>)})) :
              keys \in { k \in SUBSET CommandNames : Cardinality(k) = 3 } }

InitCmd ==
    /\ action \in Actions
    /\ cpc = "idle"
    /\ ck = 1
    /\ commands_run = <<>>
    /\ calls = <<>>
    /\ markers = {}
    /\ results = <<>>
    /\ HupIdle
    /\ BuildIdle
    /\ RetryIdle
    /\ FetchIdle
    /\ SrcIdle
    /\ YumIdle
    /\ ExtractIdle
    /\ AuthIdle
    /\ JsonIdle
    /\ RpmIdle

\* apply(action) is called, the first time or again with the same commands on
\* the host as apply has left it
CallApply ==
    /\ cpc \in {"idle", "returned"}
    /\ Len(results) < MaxApplies
    /\ cpc' = "running"
    /\ ck' = 1
    /\ commands_run' = <<>>
    /\ calls' = <<>>
    /\ UNCHANGED <<action, markers, results>>
    /\ UNCHANGED notCmdVars

\* one pass of the body of `for name in sorted(action.keys())`
CommandStep ==
    /\ cpc = "running"
    /\ ck <= Len(sorted(DOMAIN action))
    /\ LET name == sorted(DOMAIN action)[ck]
           attributes == action[name]
       IN IF "command" \notin DOMAIN attributes
          THEN \* raise ToolError("... does not specify the 'command' attribute")
               /\ cpc' = "raised"
               /\ UNCHANGED <<ck, commands_run, calls, markers>>
          ELSE LET tested == "test" \in DOMAIN attributes
                   testResult == IF tested THEN Call(attributes["test"], markers)
                                 ELSE [returncode |-> 0, files |-> markers]
                   testCalls == IF tested
                                THEN <<<<name, "test", testResult.returncode>>>>
                                ELSE <<>>
                   commandResult == Call(attributes["command"], testResult.files)
               IN IF testResult.returncode # 0
                  THEN \* continue
                       /\ calls' = calls \o testCalls
                       /\ markers' = testResult.files
                       /\ ck' = ck + 1
                       /\ UNCHANGED <<cpc, commands_run>>
                  ELSE /\ calls' = calls \o testCalls
                                     \o <<<<name, "command", commandResult.returncode>>>>
                       /\ markers' = commandResult.files
                       /\ IF commandResult.returncode # 0
                          THEN IF interpret_boolean(Get(attributes, "ignoreErrors"))
                               THEN /\ ck' = ck + 1
                                    /\ UNCHANGED <<cpc, commands_run>>
                               ELSE \* raise ToolError("Command ... failed")
                                    /\ cpc' = "raised"
                                    /\ UNCHANGED <<ck, commands_run>>
                          ELSE /\ commands_run' = Append(commands_run, name)
                               /\ ck' = ck + 1
                               /\ UNCHANGED cpc
    /\ UNCHANGED <<action, results>>
    /\ UNCHANGED notCmdVars

\* `return commands_run`, after the loop or at once for an empty section
ApplyReturns ==
    /\ cpc = "running"
    /\ ck > Len(sorted(DOMAIN action))
    /\ cpc' = "returned"
    /\ results' = Append(results, commands_run)
    /\ UNCHANGED <<action, ck, commands_run, calls, markers>>
    /\ UNCHANGED notCmdVars

NextCmd == CallApply \/ CommandStep \/ ApplyReturns

SpecCmd == InitCmd /\ [][NextCmd]_vars

-----------------------------------------------------------------------------
(* Properties of CommandTool *)

(* C25: when apply has succeeded, applying the same tool to the same section
   again, on the host as the first call left it, returns an empty list of
   changed names. For CommandTool: the second of two calls of apply that
   both returned has returned the empty list. *)
C25_ReapplyChangesNothing == Len(results) >= 2 => results[2] = <<>>

\* apply has been called and is running or over
Applying == cpc \in {"running", "returned", "raised"}

\* the name that has k - 1 names of the section before it in Python's order
NameAt(k) ==
    CHOOSE n \in DOMAIN action : Cardinality({ m \in DOMAIN action : StrLess(m, n) }) = k - 1

\* the latest process that apply has called
LastCall == calls[Len(calls)]

(* C26: apply takes the commands in ascending lexical order of their names;
   the test of a command runs just before it, and the command runs only
   after its test has exited 0; a command whose test exits non-zero is not
   run, is not reported as changed and is not where apply stops: apply goes
   on to the commands after it. *)
C26_OrderAndTests ==
    Applying =>
        /\ \A i, j \in DOMAIN calls : i < j =>
              \/ StrLess(calls[i][1], calls[j][1])
              \/ /\ calls[i][1] = calls[j][1]
                 /\ j = i + 1
                 /\ calls[i][2] = "test"
                 /\ calls[j][2] = "command"
        /\ \A j \in DOMAIN calls :
              (calls[j][2] = "command" /\ "test" \in DOMAIN action[calls[j][1]]) =>
                  (j > 1 /\ calls[j - 1] = <<calls[j][1], "test", 0>>)
        /\ \A i \in DOMAIN calls :
              (calls[i][2] = "test" /\ calls[i][3] # 0) =>
                  /\ \A j \in DOMAIN calls : ~(calls[j][1] = calls[i][1] /\ calls[j][2] = "command")
                  /\ \A k \in DOMAIN commands_run : commands_run[k] # calls[i][1]
                  /\ cpc = "raised" => calls[i][1] # NameAt(ck)
                  /\ cpc = "running" => ck > Cardinality(DOMAIN action) \/ StrLess(calls[i][1], NameAt(ck))
        /\ cpc = "returned" => \A n \in DOMAIN action : \E i \in DOMAIN calls : calls[i][1] = n

\* command 10 was skipped because its test failed, and command 9, which comes
\* after it, has run and is the one reported
C26_Witness ==
    /\ cpc = "returned"
    /\ calls = << << <<"1", "0">>, "test", 1 >>, << <<"9">>, "command", 0 >> >>
    /\ commands_run = << <<"9">> >>
    /\ results = << commands_run >>

\* the values of ignoreErrors that are true: True, 1 and, whatever their case
\* and the blanks around them, 'true', 'yes', 'y' and '1'
TrueValues ==
    { PyBool(1), PyInt(1), Chars(<<"t", "r", "u", "e">>), Chars(<<"T", "R", "U", "E">>),
      Chars(<<"Y", "e", "s">>), Chars(<<" ", "y", " ">>), Chars(<<"1">>) }

Ignoring(n) ==
    "ignoreErrors" \in DOMAIN action[n] /\ action[n]["ignoreErrors"] \in TrueValues

\* the names of the commands that ran and exited 0, in the order they ran
RanAndExited0 == SelectSeq(calls, LAMBDA c : c[2] = "command" /\ c[3] = 0)

(* C27: a command that exits non-zero raises ToolError and nothing is run
   after it, unless its ignoreErrors is true, and then apply goes on to the
   later commands and the command is not in the list; an entry without
   'command' raises ToolError before anything is run for it; the list apply
   builds and returns holds exactly the names of the commands that ran and
   exited 0. *)
C27_FailuresAndResult ==
    Applying =>
        /\ \A i \in DOMAIN calls :
              (calls[i][2] = "command" /\ calls[i][3] # 0) =>
                  IF Ignoring(calls[i][1])
                  THEN /\ \A k \in DOMAIN commands_run : commands_run[k] # calls[i][1]
                       /\ cpc = "raised" => calls[i][1] # NameAt(ck)
                       /\ cpc = "running" =>
                            \/ ck > Cardinality(DOMAIN action)
                            \/ StrLess(calls[i][1], NameAt(ck))
                  ELSE /\ cpc = "raised"
                       /\ i = Len(calls)
                       /\ calls[i][1] = NameAt(ck)
        /\ \A i \in DOMAIN calls : "command" \in DOMAIN action[calls[i][1]]
        /\ cpc = "returned" => \A n \in DOMAIN action : "command" \in DOMAIN action[n]
        /\ cpc = "raised" =>
              \/ "command" \notin DOMAIN action[NameAt(ck)]
              \/ /\ calls # <<>>
                 /\ LastCall[1] = NameAt(ck) /\ LastCall[2] = "command" /\ LastCall[3] # 0
                 /\ ~Ignoring(NameAt(ck))
        /\ commands_run = [k \in DOMAIN RanAndExited0 |-> RanAndExited0[k][1]]
        /\ cpc = "returned" => results[Len(results)] = commands_run

\* command 10 failed with ignoreErrors 'Yes', and command 9, which comes after
\* it, has run and is the only one reported
C27_Witness ==
    /\ cpc = "returned"
    /\ DOMAIN action = { <<"1", "0">>, <<"9">> }
    /\ Get(action[<<"1", "0">>], "ignoreErrors") = Chars(<<"Y", "e", "s">>)
    /\ calls = << << <<"1", "0">>, "command", 1 >>, << <<"9">>, "command", 0 >> >>
    /\ results = << << <<"9">> >> >>

-----------------------------------------------------------------------------
(* SourcesTool of cfnbootstrap/sources_tool.py. A path is a sequence of
   pieces: "/", ".", ".." or a run of other characters; a path component may
   be made of several pieces (<<"app", "2">> is the name app2). No two pieces
   but "." and ".." begin with the same character, so the common prefix of
   two normalised paths by pieces is their common prefix by characters. *)

\* the directory cfn-init runs in
cwd == <<"/", "opt">>

\* os.path.isabs
isabs(p) == p # <<>> /\ Head(p) = "/"

\* os.path.join(a, b)
join(a, b) ==
    IF isabs(b) THEN b
    ELSE IF a = <<>> \/ a[Len(a)] = "/" THEN a \o b
    ELSE a \o <<"/">> \o b

\* p.split('/'): the components of p, empty ones included
RECURSIVE split(_, _)
split(p, comp) ==
    IF p = <<>> THEN <<comp>>
    ELSE IF Head(p) = "/" THEN <<comp>> \o split(Tail(p), <<>>)
    ELSE split(Tail(p), Append(comp, Head(p)))

\* the loop of posixpath.normpath over the components: empty ones and "."
\* are dropped, ".." takes the component before it away or, at the root, is
\* dropped; in a relative path a leading ".." stays
RECURSIVE collapse(_, _, _)
collapse(comps, new_comps, initial_slashes) ==
    IF comps = <<>> THEN new_comps
    ELSE LET comp == Head(comps)
         IN IF comp = <<>> \/ comp = <<".">>
            THEN collapse(Tail(comps), new_comps, initial_slashes)
            ELSE IF \/ comp # <<"..">>
                    \/ (~initial_slashes /\ new_comps = <<>>)
                    \/ (new_comps # <<>> /\ new_comps[Len(new_comps)] = <<"..">>)
            THEN collapse(Tail(comps), Append(new_comps, comp), initial_slashes)
            ELSE IF new_comps # <<>>
            THEN collapse(Tail(comps), SubSeq(new_comps, 1, Len(new_comps) - 1),
                          initial_slashes)
            ELSE collapse(Tail(comps), new_comps, initial_slashes)

\* '/'.join(comps)
RECURSIVE joined(_)
joined(comps) ==
    IF comps = <<>> THEN <<>>
    ELSE IF Len(comps) = 1 THEN Head(comps)
    ELSE Head(comps) \o <<"/">> \o joined(Tail(comps))

\* os.path.normpath (of a path that does not begin with two slashes)
normpath(p) ==
    LET path == (IF isabs(p) THEN <<"/">> ELSE <<>>)
                   \o joined(collapse(split(p, <<>>), <<>>, isabs(p)))
    IN IF path = <<>> THEN <<".">> ELSE path

\* os.path.abspath
abspath(p) == normpath(IF isabs(p) THEN p ELSE join(cwd, p))

\* os.path.normcase, which on a POSIX host returns the path as it is
normcase(p) == p

\* os.path.commonprefix of two strings: their longest common leading part,
\* whether or not it ends at a component
RECURSIVE commonprefix(_, _)
commonprefix(a, b) ==
    IF a = <<>> \/ b = <<>> \/ Head(a) # Head(b) THEN <<>>
    ELSE <<Head(a)>> \o commonprefix(Tail(a), Tail(b))

\* the test _check_all_members_in_path makes of one member
MemberPrefix(normalized_parent, member) ==
    IF isabs(member)
    THEN commonprefix(normcase(normpath(member)), normalized_parent)
    ELSE commonprefix(normcase(normpath(join(normalized_parent, member))),
                      normalized_parent)

\* _check_all_members_in_path: TRUE if it returns, FALSE if it raises ToolError
_check_all_members_in_path(path, members) ==
    LET normalized_parent == normcase(abspath(path))
    IN \A i \in DOMAIN members : MemberPrefix(normalized_parent, members[i]) = normalized_parent

\* where extractall(dest) writes a member
Target(dir, member) == normpath(join(abspath(dir), member))

\* an archive: where it is, what it is and the names of its members
Archive(location, format, members) ==
    [location |-> location, format |-> format, members |-> members]

MemberNames ==
    { <<"x">>,
      <<".">>,
      <<"x", "/", "..", "/", "x">>,
      <<"/", "opt", "/", "app", "/", "x">>,
      <<"..", "/", "etc">>,
      <<"/", "etc", "/", "x">>,
      <<"..", "/", "app", "2", "/", "x">>,
      <<"/", "opt", "/", "app", "2">> }

\* local tarballs with one member or with x and another member after it,
\* and archives that are somewhere else or something else
Archives ==
    { Archive("file", "tar", <<m>>) : m \in MemberNames }
      \cup { Archive("file", "tar", <<<<"x">>, m>>) : m \in MemberNames }
      \cup { Archive("file", "zip", <<<<"x">>>>),
             Archive("file", "other", <<>>),
             Archive("missing", "tar", <<<<"x">>>>),
             Archive("url", "tar", <<<<"x">>>>),
             Archive("unreachable", "tar", <<<<"x">>>>),
             Archive("github", "tar", <<<<"x">>, <<"x", "/", "x">>>>),
             Archive("github", "tar", <<<<"x">>, <<"etc">>>>) }

\* the destinations, in the order Python sorts their names
Destinations ==
    << <<"/">>, <<"/", "opt", "/", "app">>, <<"/", "opt", "/", "app", "/">>, <<"app">> >>

DestinationSet == { Destinations[i] : i \in DOMAIN Destinations }

\* sorted(action.iteritems(), key=lambda pair: pair[0]): the keys in order
SortedPaths(keys) ==
    SelectSeq(Destinations, LAMBDA d : d \in keys)

\* the sources sections: up to two destinations
SourceSections ==
    UNION { [keys -> Archives] :
              keys \in { k \in SUBSET DestinationSet : Cardinality(k) <= 2 } }

\* the directory tempfile.mkdtemp() makes
tempdir == <<"/", "tmp">>

\* what extract_all(dir) of the archive for path writes, as entries of
\* `extracted`
Extraction(where, path, dir, members) ==
    [i \in DOMAIN members |-> <<where, path, members[i], Target(dir, members[i])>>]

\* the components of a member name below the directory it is extracted into
Below(member) == collapse(split(member, <<>>), <<>>, FALSE)

\* _perform_github_magic: the members of the archive that is extracted into
\* path. If the temporary directory holds exactly one entry, they are the
\* entries of that directory, else the members as they were
_perform_github_magic(members) ==
    LET tempmembers == { Head(Below(members[i])) : i \in DOMAIN members }
        inside == SelectSeq(members, LAMBDA m : Len(Below(m)) > 1)
    IN IF Cardinality(tempmembers) # 1 THEN members
       ELSE [i \in DOMAIN inside |-> joined(Tail(Below(inside[i])))]

\* the body of the for loop of a tool that extracts first and checks the
\* members afterwards
ExplodeThenCheck(path, archive) ==
    IF archive.location \in {"missing", "unreachable"} \/ archive.format = "other"
    THEN [raised |-> "unusable", written |-> <<>>]
    ELSE IF ~_check_all_members_in_path(path, archive.members)
    THEN [raised |-> "not a sub-path",
          written |-> Extraction("dest", path, path, archive.members)]
    ELSE [raised |-> "", written |-> Extraction("dest", path, path, archive.members)]

\* the body of the for loop of apply for one (path, archive): the reason of
\* the ToolError it raises ("" if none) and what it writes to disk. The
\* archive is opened (a local file that is missing, a URL that cannot be
\* fetched and a file that is neither a tarball nor a zip raise ToolError),
\* its members are checked, a GitHub archive is extracted into a temporary
\* directory (which is removed again), and the archive is extracted into path
Explode(path, archive) ==
    IF archive.location = "missing" THEN [raised |-> "does not exist", written |-> <<>>]
    ELSE IF archive.location = "unreachable" THEN [raised |-> "IOError", written |-> <<>>]
    ELSE IF archive.format = "other" THEN [raised |-> "unsupported", written |-> <<>>]
    ELSE IF ~_check_all_members_in_path(path, archive.members)
    THEN [raised |-> "not a sub-path", written |-> <<>>]
    ELSE IF archive.location = "github"
    THEN [raised |-> "",
          written |-> Extraction("temp", path, tempdir, archive.members)
                        \o Extraction("dest", path, path,
                                     _perform_github_magic(archive.members))]
    ELSE [raised |-> "", written |-> Extraction("dest", path, path, archive.members)]

InitSrc ==
    /\ sources \in SourceSections
    /\ spc = "idle"
    /\ sk = 1
    /\ dirs_changed = <<>>
    /\ extracted = <<>>
    /\ serr = ""
    /\ HupIdle
    /\ BuildIdle
    /\ RetryIdle
    /\ FetchIdle
    /\ CmdIdle
    /\ YumIdle
    /\ ExtractIdle
    /\ AuthIdle
    /\ JsonIdle
    /\ RpmIdle

\* apply(action) is called
CallSources ==
    /\ spc = "idle"
    /\ spc' = "running"
    /\ UNCHANGED <<sources, sk, dirs_changed, extracted, serr>>
    /\ UNCHANGED notSrcVars

\* one pass of the body of the for loop of apply
SourceStep ==
    /\ spc = "running"
    /\ sk <= Len(SortedPaths(DOMAIN sources))
    /\ LET path == SortedPaths(DOMAIN sources)[sk]
       IN \E res \in {Explode(path, sources[path])} :
            /\ extracted' = extracted \o res.written
            /\ IF res.raised # ""
               THEN /\ spc' = "raised"
                    /\ serr' = res.raised
                    /\ UNCHANGED <<sk, dirs_changed>>
               ELSE /\ dirs_changed' = Append(dirs_changed, path)
                    /\ sk' = sk + 1
                    /\ UNCHANGED <<spc, serr>>
    /\ UNCHANGED sources
    /\ UNCHANGED notSrcVars

\* `return dirs_changed`
SourcesReturn ==
    /\ spc = "running"
    /\ sk > Len(SortedPaths(DOMAIN sources))
    /\ spc' = "returned"
    /\ UNCHANGED <<sources, sk, dirs_changed, extracted, serr>>
    /\ UNCHANGED notSrcVars

NextSrc == CallSources \/ SourceStep \/ SourcesReturn

SpecSrc == InitSrc /\ [][NextSrc]_vars

-----------------------------------------------------------------------------
(* Properties of SourcesTool *)

\* the components of a path that name something
Named(p) == SelectSeq(split(p, <<>>), LAMBDA c : c # <<>>)

\* t is d or a path below d, component by component
UnderByComponents(t, d) ==
    /\ Len(Named(d)) <= Len(Named(t))
    /\ SubSeq(Named(t), 1, Len(Named(d))) = Named(d)

(* C28: whatever SourcesTool extracts for destination D, each member, joined
   to the absolute form of D and normalised, is D or a path below D by path
   components, archives with a member that is anywhere else, a sibling
   directory whose name begins with D's name included, being rejected. *)
C28_MembersStayBelow ==
    \A i \in DOMAIN extracted :
        extracted[i][1] = "dest" =>
            UnderByComponents(extracted[i][4], abspath(extracted[i][2]))

\* the destination of the archive apply is at
CurrentPath == SortedPaths(DOMAIN sources)[sk]

\* apply raised ToolError because a member of the archive it is at is not
\* below the destination
RejectedForEscape == spc = "raised" /\ serr = "not a sub-path"

(* C29: when apply rejects an archive because a member escapes the
   destination, nothing of that archive has been extracted, into the
   destination or into a temporary directory, and the destination is not in
   the list of changed directories. *)
C29_RejectedBeforeExtraction ==
    RejectedForEscape =>
        /\ \A i \in DOMAIN extracted : extracted[i][2] # CurrentPath
        /\ \A k \in DOMAIN dirs_changed : dirs_changed[k] # CurrentPath
        /\ Len(dirs_changed) = sk - 1

\* the second archive of a section is rejected for its second member,
\* ../etc, after the first archive was extracted
C29_Witness ==
    /\ RejectedForEscape
    /\ sk = 2
    /\ extracted # <<>>
    /\ sources[CurrentPath].members = << <<"x">>, <<"..", "/", "etc">> >>

-----------------------------------------------------------------------------
(* YumTool of cfnbootstrap/rpm_tools.py. A package on the host or in the
   repositories is <<name, version>>; a package spec given to yum is <<name>>
   or <<name, "-", version>>. *)

PyList(l) == <<"list", l>>

\* the value of action[pkg_name]: nothing, a version or a list of versions
VersionValues ==
    { None, PyStr(""), PyStr("1"), PyList(<<>>), PyList(<<"1", "2">>),
      PyList(<<"", "2">>) }

\* `if action[pkg_name]`
HasVersions(v) ==
    CASE v[1] = "none" -> FALSE
      [] v[1] = "str" -> v[2] # ""
      [] v[1] = "list" -> v[2] # <<>>

\* '%s-%s' % (pkg_name, ver)
Versioned(pkg_name, ver) == <<pkg_name, "-", ver>>

\* pkg_keys: the specs for one entry of action
pkg_keys(pkg_name, v) ==
    IF HasVersions(v)
    THEN IF v[1] = "str"
         THEN << Versioned(pkg_name, v[2]) >>
         ELSE [ i \in DOMAIN v[2] |->
                  IF v[2][i] # "" THEN Versioned(pkg_name, v[2][i]) ELSE <<pkg_name>> ]
    ELSE << <<pkg_name>> >>

\* yum's match of a spec with a package
Matches(pkg, p) == pkg = <<p[1]>> \/ pkg = Versioned(p[1], p[2])

\* the return code of `yum -C -y list installed pkg` and of `yum -C -y list
\* available pkg` on a host with the packages db
ListReturncode(pkg, db) == IF \E p \in db : Matches(pkg, p) THEN 0 ELSE 1

\* _pkg_filter of a tool that leaves out what yum does not have
PkgFilterSkipsUnavailable(pkg, inst, avail) ==
    IF ListReturncode(pkg, inst) = 0
    THEN [keep |-> FALSE, raised |-> FALSE,
          ran |-> << <<"list installed", pkg, 0>> >>]
    ELSE [keep |-> ListReturncode(pkg, avail) = 0, raised |-> FALSE,
          ran |-> << <<"list installed", pkg, ListReturncode(pkg, inst)>>,
                     <<"list available", pkg, ListReturncode(pkg, avail)>> >>]

\* _pkg_filter: whether pkg is kept, whether ToolError is raised, and the yum
\* commands run
_pkg_filter(pkg, inst, avail) ==
    IF ListReturncode(pkg, inst) = 0
    THEN [keep |-> FALSE, raised |-> FALSE,
          ran |-> << <<"list installed", pkg, 0>> >>]
    ELSE IF ListReturncode(pkg, avail) # 0
    THEN [keep |-> FALSE, raised |-> TRUE,
          ran |-> << <<"list installed", pkg, ListReturncode(pkg, inst)>>,
                     <<"list available", pkg, ListReturncode(pkg, avail)>> >>]
    ELSE [keep |-> TRUE, raised |-> FALSE,
          ran |-> << <<"list installed", pkg, ListReturncode(pkg, inst)>>,
                     <<"list available", pkg, 0>> >>]

\* [pkg_key for pkg_key in pkg_keys if self._pkg_filter(pkg_key)]: the specs
\* kept, whether ToolError ended the comprehension, and the yum commands run
RECURSIVE Filtered(_, _, _)
Filtered(keys, inst, avail) ==
    IF keys = <<>> THEN [kept |-> <<>>, raised |-> FALSE, ran |-> <<>>]
    ELSE LET first == _pkg_filter(Head(keys), inst, avail)
         IN IF first.raised
            THEN [kept |-> <<>>, raised |-> TRUE, ran |-> first.ran]
            ELSE LET rest == Filtered(Tail(keys), inst, avail)
                 IN [kept |-> (IF first.keep THEN <<Head(keys)>> ELSE <<>>) \o rest.kept,
                     raised |-> rest.raised,
                     ran |-> first.ran \o rest.ran]

PackageNames == {"a", "b"}

Packages == { <<"a", "1">>, <<"a", "2">>, <<"b", "1">> }

\* the yum sections: none, one or two packages
YumActions == UNION { [keys -> VersionValues] : keys \in SUBSET PackageNames }

\* what `yum -y install` of the specs leaves installed: for each spec, the
\* packages that match it
Installs(specs, avail) ==
    { p \in avail : \E i \in DOMAIN specs : Matches(specs[i], p) }

InitYum ==
    /\ yum_action \in YumActions
    /\ installed \in SUBSET Packages
    /\ available \in SUBSET Packages
    /\ ypc = "idle"
    /\ yum_order = <<>>
    /\ yk = 1
    /\ pkg_specs = <<>>
    /\ pkgs_changed = <<>>
    /\ yum_calls = <<>>
    /\ yum_result = <<"", 0>>
    /\ HupIdle
    /\ BuildIdle
    /\ RetryIdle
    /\ FetchIdle
    /\ CmdIdle
    /\ SrcIdle
    /\ ExtractIdle
    /\ AuthIdle
    /\ JsonIdle
    /\ RpmIdle

\* apply(action) is called: an empty section returns at once, else
\* `yum -y makecache` runs and its failure raises ToolError
CallYum ==
    /\ ypc = "idle"
    /\ IF DOMAIN yum_action = {}
       THEN /\ ypc' = "returned"
            /\ yum_result' = <<"return", <<>>>>
            /\ UNCHANGED <<yum_order, yum_calls>>
       ELSE \E returncode \in {0, 1} :
            /\ yum_calls' = << <<"makecache", <<>>, returncode>> >>
            /\ IF returncode # 0
               THEN /\ ypc' = "raised"
                    /\ yum_result' = <<"raise", "Could not create yum cache">>
                    /\ UNCHANGED yum_order
               ELSE /\ ypc' = "filtering"
                    \* a dict gives its keys in an order of its own
                    /\ yum_order' \in Arrangements(DOMAIN yum_action)
                    /\ UNCHANGED yum_result
    /\ UNCHANGED <<yum_action, installed, available, yk, pkg_specs, pkgs_changed>>
    /\ UNCHANGED notYumVars

\* one pass of the body of `for pkg_name in action`
FilterPackage ==
    /\ ypc = "filtering"
    /\ yk <= Len(yum_order)
    /\ LET pkg_name == yum_order[yk]
       IN \E pkgs_filtered \in
               {Filtered(pkg_keys(pkg_name, yum_action[pkg_name]), installed, available)} :
            /\ yum_calls' = yum_calls \o pkgs_filtered.ran
            /\ IF pkgs_filtered.raised
               THEN /\ ypc' = "raised"
                    /\ yum_result' = <<"raise", "not available">>
                    /\ UNCHANGED <<yk, pkg_specs, pkgs_changed>>
               ELSE /\ yk' = yk + 1
                    /\ IF pkgs_filtered.kept # <<>>
                       THEN /\ pkg_specs' = pkg_specs \o pkgs_filtered.kept
                            /\ pkgs_changed' = Append(pkgs_changed, pkg_name)
                       ELSE UNCHANGED <<pkg_specs, pkgs_changed>>
                    /\ UNCHANGED <<ypc, yum_result>>
    /\ UNCHANGED <<yum_action, installed, available, yum_order>>
    /\ UNCHANGED notYumVars

\* after the loop: nothing to install returns [], else `yum -y install` runs
\* once with pkg_specs; its failure raises ToolError, else pkgs_changed is
\* returned
InstallPackages ==
    /\ ypc = "filtering"
    /\ yk > Len(yum_order)
    /\ IF pkg_specs = <<>>
       THEN /\ ypc' = "returned"
            /\ yum_result' = <<"return", <<>>>>
            /\ UNCHANGED <<yum_calls, installed>>
       ELSE \E returncode \in {0, 1} :
            /\ yum_calls' = Append(yum_calls, <<"install", pkg_specs, returncode>>)
            /\ IF returncode # 0
               THEN /\ ypc' = "raised"
                    /\ yum_result' = <<"raise", "Could not successfully install yum packages">>
                    /\ UNCHANGED installed
               ELSE /\ ypc' = "returned"
                    /\ yum_result' = <<"return", pkgs_changed>>
                    /\ installed' = installed \cup Installs(pkg_specs, available)
    /\ UNCHANGED <<yum_action, available, yum_order, yk, pkg_specs, pkgs_changed>>
    /\ UNCHANGED notYumVars

NextYum == CallYum \/ FilterPackage \/ InstallPackages

SpecYum == InitYum /\ [][NextYum]_vars

-----------------------------------------------------------------------------
(* Properties of YumTool *)

\* the runs of `yum -y install`
InstallCalls == SelectSeq(yum_calls, LAMBDA c : c[1] = "install")

\* the specs of the section
SpecsOf ==
    UNION { { pkg_keys(n, yum_action[n])[i] : i \in DOMAIN pkg_keys(n, yum_action[n]) } :
              n \in DOMAIN yum_action }

\* yum has answered that the spec is not installed, and that it is available
AnsweredMissing(pkg) == \E i \in DOMAIN yum_calls : yum_calls[i] = <<"list installed", pkg, 1>>
AnsweredAvailable(pkg) == \E i \in DOMAIN yum_calls : yum_calls[i] = <<"list available", pkg, 0>>

\* no install has changed the host
HostUntouched == \A i \in DOMAIN InstallCalls : InstallCalls[i][3] # 0

\* apply is over and makecache had succeeded
Filtering == ypc \in {"filtering", "returned", "raised"} /\ yum_action # <<>>
                /\ yum_calls[1] = <<"makecache", <<>>, 0>>
YumOver == ypc \in {"returned", "raised"} /\ yum_action # <<>>
              /\ yum_calls[1] = <<"makecache", <<>>, 0>>

\* the specs given to the one run of install
Batch == { InstallCalls[1][2][i] : i \in DOMAIN InstallCalls[1][2] }

(* C30: apply runs `yum -y install` at most once, with exactly the specs that
   yum says are not installed and are available; a spec that is neither
   installed nor available makes it raise ToolError without running install;
   if every spec is installed already it returns the empty list and does not
   run install; the names it returns are the packages with a spec in the
   batch. *)
C30_OneBatchedInstall ==
    /\ Len(InstallCalls) <= 1
    /\ ypc \in {"idle", "filtering"} => InstallCalls = <<>>
    /\ Filtering =>
          \* what yum has answered so far is what the host holds
          /\ HostUntouched =>
                \A i \in DOMAIN yum_calls :
                    /\ yum_calls[i][1] = "list installed" =>
                          yum_calls[i][3] = ListReturncode(yum_calls[i][2], installed)
                    /\ yum_calls[i][1] = "list available" =>
                          yum_calls[i][3] = ListReturncode(yum_calls[i][2], available)
          /\ InstallCalls # <<>> =>
                /\ Batch = { pkg \in SpecsOf : AnsweredMissing(pkg) /\ AnsweredAvailable(pkg) }
                /\ Batch # {}
                /\ \A pkg \in SpecsOf :
                      \E i \in DOMAIN yum_calls : yum_calls[i] = <<"list installed", pkg,
                                                                    yum_calls[i][3]>>
    /\ YumOver =>
          /\ (\E pkg \in SpecsOf : /\ ListReturncode(pkg, installed) # 0
                                   /\ ListReturncode(pkg, available) # 0) =>
                (ypc = "raised" /\ InstallCalls = <<>>)
          /\ (HostUntouched /\ \A pkg \in SpecsOf : ListReturncode(pkg, installed) = 0) =>
                (yum_result = <<"return", <<>>>> /\ InstallCalls = <<>>)
          /\ ypc = "returned" =>
                IF InstallCalls = <<>> THEN yum_result = <<"return", <<>>>>
                ELSE /\ InstallCalls[1][3] = 0
                     /\ yum_result[1] = "return"
                     /\ { yum_result[2][i] : i \in DOMAIN yum_result[2] }
                          = { n \in DOMAIN yum_action :
                                \E i \in DOMAIN pkg_keys(n, yum_action[n]) :
                                    pkg_keys(n, yum_action[n])[i] \in Batch }
                     /\ \A i, j \in DOMAIN yum_result[2] :
                            i # j => yum_result[2][i] # yum_result[2][j]

\* of the two versions wanted of a, one was installed and the other was
\* installed by the one run of install; b was installed already
C30_Witness ==
    /\ ypc = "returned"
    /\ yum_action = ("a" :> PyList(<<"1", "2">>)) @@ ("b" :> None)
    /\ yum_result = <<"return", <<"a">>>>
    /\ InstallCalls = << <<"install", << <<"a", "-", "2">> >>, 0>> >>
    /\ <<"b", "1">> \in installed

-----------------------------------------------------------------------------
(* Properties of the order of the package managers *)

\* the characters of a manager name as ord() gives them
Spelling(name) ==
    CASE name = "dpkg" -> <<100, 112, 107, 103>>
      [] name = "rpm" -> <<114, 112, 109>>
      [] name = "apt" -> <<97, 112, 116>>
      [] name = "yum" -> <<121, 117, 109>>
      [] name = "python" -> <<112, 121, 116, 104, 111, 110>>
      [] name = "rubygems" -> <<114, 117, 98, 121, 103, 101, 109, 115>>
      [] name = "Pacman" -> <<80, 97, 99, 109, 97, 110>>
      [] name = "Zypper" -> <<90, 121, 112, 112, 101, 114>>

\* the same characters without their case
Caseless(codes) ==
    [ i \in DOMAIN codes |-> IF codes[i] \in 65..90 THEN codes[i] + 32 ELSE codes[i] ]

\* the lexical order of two different spellings
RECURSIVE LexLess(_, _)
LexLess(x, y) ==
    IF y = <<>> THEN FALSE
    ELSE IF x = <<>> THEN TRUE
    ELSE IF Head(x) # Head(y) THEN Head(x) < Head(y)
    ELSE LexLess(Tail(x), Tail(y))

\* the managers that are applied first, in their order
Priority == <<"dpkg", "rpm", "apt", "yum">>

PriorityRank(m) == IF \E k \in 1..4 : Priority[k] = m
                   THEN CHOOSE k \in 1..4 : Priority[k] = m ELSE 5

\* manager a is applied before manager b
AppliedBefore(a, b) ==
    \/ PriorityRank(a) < PriorityRank(b)
    \/ /\ PriorityRank(a) = 5
       /\ PriorityRank(b) = 5
       /\ LexLess(Caseless(Spelling(a)), Caseless(Spelling(b)))

\* the managers of the packages section of the config at a place of the request
ManagersAt(s, p) == DOMAIN ConfigOf(model, configSets[request[s]][p][2]).packages

\* the package managers whose tool has been applied at a place, in order
AppliedAt(s, p) ==
    SelectSeq(ran, LAMBDA r : r.set = s /\ r.pos = p /\ r.category = "packages")

\* C31: within one config the package tools are applied in the order dpkg, rpm,
\* apt, yum, then the other managers in the lexical order of their names without
\* case, and the warnings come in that order too; a manager without a registered
\* tool has no tool applied (its step is the warning), and when the tool of a
\* manager is applied the tool of every registered manager that comes before it
\* in that order has been applied
C31_PackageOrder ==
    /\ \A i \in 1..Len(ran) : ran[i].category = "packages" =>
          LET applied == AppliedAt(ran[i].set, ran[i].pos)
          IN /\ ran[i].manager \in _packageTools
             /\ ran[i].manager \in ManagersAt(ran[i].set, ran[i].pos)
             /\ \A a, b \in 1..Len(applied) :
                    a < b => AppliedBefore(applied[a].manager, applied[b].manager)
             /\ \A m \in ManagersAt(ran[i].set, ran[i].pos) \cap _packageTools :
                    AppliedBefore(m, ran[i].manager) =>
                        \E j \in 1..(i - 1) : /\ ran[j].set = ran[i].set
                                               /\ ran[j].pos = ran[i].pos
                                               /\ ran[j].category = "packages"
                                               /\ ran[j].manager = m
    /\ \A i \in 1..Len(ran) : ran[i].category # "packages" =>
          { r.manager : r \in { ran[j] : j \in { k \in 1..Len(ran) :
                /\ ran[k].set = ran[i].set /\ ran[k].pos = ran[i].pos
                /\ ran[k].category = "packages" } } }
            = ManagersAt(ran[i].set, ran[i].pos) \cap _packageTools
    /\ (bpc = "building" /\ ti >= 1) =>
          \A k \in 1..Len(steps) : steps[k].category = "packages" =>
              /\ steps[k].tool <=> steps[k].manager \in _packageTools
              /\ \A l \in (k + 1)..Len(steps) : steps[l].category = "packages" =>
                     AppliedBefore(steps[k].manager, steps[l].manager)

\* the config has the managers dpkg, rpm, yum, Pacman, python and Zypper: dpkg
\* and Pacman were warned about, and the tools of rpm, yum and python were
\* applied in that order before the group tool
C31_Witness ==
    /\ Len(ran) >= 4
    /\ ran[1].manager = "rpm"
    /\ ran[2].manager = "yum"
    /\ ran[3].manager = "python"
    /\ ran[4].category = "groups"
    /\ ManagersAt(1, 1) = {"dpkg", "rpm", "yum", "Pacman", "python", "Zypper"}
    /\ [ k \in 1..6 |-> steps[k].manager ]
         = <<"dpkg", "rpm", "yum", "Pacman", "python", "Zypper">>

-----------------------------------------------------------------------------
(* util.extract_value on its own: metadata with dotted keys *)

\* the keys of the dictionaries: a, b, 'a.b', 'a..b', '.', 'a\.b' and 'a\'
ExtractKeys ==
    { <<"a">>, <<"b">>, <<"a", ".", "b">>, <<"a", ".", ".", "b">>, <<".">>,
      <<"a", "\\", ".", "b">>, <<"a", "\\">> }

\* a key written into a path: a backslash before each of its dots
RECURSIVE Escape(_)
Escape(k) ==
    IF k = <<>> THEN <<>>
    ELSE IF Head(k) = "." THEN <<"\\", ".">> \o Escape(Tail(k))
    ELSE <<Head(k)>> \o Escape(Tail(k))

\* the path that names the keys one below the other
RECURSIVE DottedPath(_)
DottedPath(ks) ==
    IF ks = <<>> THEN <<>>
    ELSE IF Len(ks) = 1 THEN Escape(ks[1])
    ELSE Escape(ks[1]) \o <<".">> \o DottedPath(Tail(ks))

\* the lists of keys a path is written from; a key that ends in a backslash
\* comes last, because the dot after it would be taken for an escaped one
KeyLists ==
    { <<>> } \cup { <<k>> : k \in ExtractKeys }
    \cup { <<k1, k2>> : k1 \in ExtractKeys \ {<<"a", "\\">>}, k2 \in ExtractKeys }

\* the metadata dictionaries
Metadatas ==
    { PyDict(EmptyFcn) }
    \cup { PyDict(k :> PyInt(1)) : k \in ExtractKeys }
    \cup { PyDict((<<"a">> :> PyDict(<<"b">> :> PyInt(2))) @@ (<<"a", ".", "b">> :> PyInt(3))),
           PyDict((<<"a">> :> PyDict(<<"a", ".", "b">> :> PyDict(<<".">> :> None)))
                  @@ (<<"b">> :> PyStr(<<"a", "b">>))),
           PyDict((<<"a", ".", ".", "b">> :> PyDict(<<"a", "\\">> :> PyInt(4)))
                  @@ (<<"a", "\\", ".", "b">> :> PyDict(EmptyFcn))
                  @@ (<<".">> :> PyDict(<<"a", "\\", ".", "b">> :> PyInt(5)))) }

\* the paths: those written from keys, and some written without escaping
ExtractPaths ==
    { DottedPath(ks) : ks \in KeyLists }
    \cup { <<"a", ".", "b">>, <<"a", ".", ".", "b">>, <<".">>, <<"a", ".">> }

InitExtract ==
    /\ ev_metadata \in Metadatas
    /\ ev_path \in ExtractPaths
    /\ ev_pc = "called"
    /\ ev_result = <<>>
    /\ HupIdle
    /\ BuildIdle
    /\ RetryIdle
    /\ FetchIdle
    /\ CmdIdle
    /\ SrcIdle
    /\ YumIdle
    /\ AuthIdle
    /\ JsonIdle
    /\ RpmIdle

\* extract_value runs from its call to its return or to the exception
ExtractValue ==
    /\ ev_pc = "called"
    /\ \E res \in {extract_value(ev_metadata, ev_path)} :
         /\ ev_result' = res[2]
         /\ ev_pc' = IF res[1] = "return" THEN "returned" ELSE "raised"
    /\ UNCHANGED <<ev_metadata, ev_path>>
    /\ UNCHANGED notExtractVars

NextExtract == ExtractValue

SpecExtract == InitExtract /\ [][NextExtract]_vars

-----------------------------------------------------------------------------
(* Properties of extract_value *)

\* a key has a dot
Dotted(k) == \E i \in DOMAIN k : k[i] = "."

\* the keys looked up one below the other in nested dictionaries: the value
\* found, None when a dictionary on the way has not the key, and NotADict when
\* the way leads into a value that is not a dictionary
NotADict == <<"not a dict">>

RECURSIVE Nested(_, _)
Nested(m, ks) ==
    IF ks = <<>> THEN m
    ELSE IF m[1] # "dict" THEN NotADict
    ELSE IF Head(ks) \notin DOMAIN m[2] THEN None
    ELSE Nested(m[2][Head(ks)], Tail(ks))

\* a dictionary on the way has not the key that is looked up in it
RECURSIVE MissingKey(_, _)
MissingKey(m, ks) ==
    /\ ks # <<>>
    /\ m[1] = "dict"
    /\ \/ Head(ks) \notin DOMAIN m[2]
       \/ Head(ks) \in DOMAIN m[2] /\ MissingKey(m[2][Head(ks)], Tail(ks))

\* C32: extract_value(m, path) takes '\.' for a dot of a key and every other
\* dot for a separator: the path with every dot of a key k of m escaped gives
\* m[k], and the path written from a list of keys gives the value nested under
\* them; the empty path gives m itself; a key missing in a dictionary at any
\* step of the path gives None
C32_EscapedPathResolves ==
    ev_pc # "called" =>
        /\ \A k \in DOMAIN ev_metadata[2] :
              ev_path = Escape(k) => (ev_pc = "returned" /\ ev_result = ev_metadata[2][k])
        /\ ev_path = <<>> => (ev_pc = "returned" /\ ev_result = ev_metadata)
        /\ \A ks \in KeyLists : ev_path = DottedPath(ks) =>
              /\ MissingKey(ev_metadata, ks) => (ev_pc = "returned" /\ ev_result = None)
              /\ Nested(ev_metadata, ks) # NotADict =>
                    (ev_pc = "returned" /\ ev_result = Nested(ev_metadata, ks))

\* the path 'a\.b' has given the value of the key 'a.b', not that of b under a
C32_Witness ==
    /\ ev_pc = "returned"
    /\ ev_path = <<"a", "\\", ".", "b">>
    /\ <<"a", ".", "b">> \in DOMAIN ev_metadata[2]
    /\ <<"a">> \in DOMAIN ev_metadata[2]
    /\ ev_result = PyInt(3)

\* the path '\..a' has given None: the key '.' is there and holds a
\* dictionary, which has no key 'a'
C32_WitnessMissing ==
    /\ ev_pc = "returned"
    /\ ev_path = <<"\\", ".", ".", "a">>
    /\ <<".">> \in DOMAIN ev_metadata[2]
    /\ ev_metadata[2][<<".">>][1] = "dict"
    /\ ev_result = None

-----------------------------------------------------------------------------
(* cfnbootstrap/auth.py: the signers *)

\* the number of calls of a signer after which it is no longer followed
MaxSigns == 3

\* the number of times the instance metadata changes the credentials of a role
MaxRotations == 2

\* the signer objects: S3Auth(access_key, secret_key), S3RoleAuth(roleName),
\* HTTPBasicAuth(username, password) and the one DefaultAuth(s3Auth, basicAuth)
S3Auth(access_key, secret_key) == [class |-> "S3Auth", a |-> access_key, b |-> secret_key]
S3RoleAuth(roleName) == [class |-> "S3RoleAuth", a |-> roleName, b |-> <<>>]
HTTPBasicAuth(username, password) ==
    [class |-> "HTTPBasicAuth", a |-> username, b |-> password]
DefaultAuth == [class |-> "DefaultAuth", a |-> <<>>, b |-> <<>>]

\* config.get(key) and config.get(key, default) on an entry of the section
ConfigGet(config, key, default) == IF key \in DOMAIN config THEN config[key] ELSE default

\* lowerType of a registry that takes the type as it is written
TypeAsWritten(t) == t

\* str.lower() of a type
lowerType(t) ==
    CASE t = <<"S3">> -> <<"s3">>
      [] t = <<"Basic">> -> <<"basic">>
      [] t = <<"BASIC">> -> <<"basic">>
      [] OTHER -> t

\* `[v] if isinstance(v, basestring) else v` for the value of buckets, and the
\* two branches for the value of uris: a string is one name, a list is its items
NamesOf(v) == Tail(v)

\* the credentials the instance metadata serves for a role in a version
RoleCreds(name, version) ==
    [AccessKeyId |-> <<"access", name, version>>,
     SecretAccessKey |-> <<"secret", name, version>>,
     Token |-> <<"token", name, version>>]

\* get_role_creds(name): the credentials served now, as the tuple it returns
get_role_creds(name, served) ==
    LET role == RoleCreds(name, served[name])
    IN <<role.AccessKeyId, role.SecretAccessKey, role.Token>>

\* the credentials of a role signer that fetches them once and keeps them: the
\* number of calls of get_role_creds it makes, and the credentials it signs with
CredsKeptAfterFirstFetch(roleName, latest, served) ==
    IF Len(latest) = 3 /\ latest[1][2] = roleName
    THEN <<0, latest>>
    ELSE <<1, get_role_creds(roleName, served)>>

\* S3RoleAuth.__call__, `util.get_role_creds(self._roleName)`: the number of
\* calls of get_role_creds it makes, and the credentials it signs with
CredsForSigning(roleName, latest, served) == <<1, get_role_creds(roleName, served)>>

\* a request: the host and path of its URL and the headers set so far
Request(netloc, path) == [netloc |-> netloc, path |-> path, headers |-> EmptyFcn]

\* S3Signer(access_key, secret_key, token).sign(req): the security token when
\* there is one, and the Authorization header made with the two keys
S3Sign(access_key, secret_key, token, req) ==
    LET withToken == IF token # <<>>
                     THEN ("x-amz-security-token" :> token) @@ req.headers
                     ELSE req.headers
    IN [req EXCEPT !.headers =
           ("Authorization" :> <<"AWS", access_key, secret_key>>) @@ withToken]

\* HTTPBasicAuth.__call__
BasicSign(username, password, req) ==
    [req EXCEPT !.headers = ("Authorization" :> <<"Basic", username, password>>) @@ @]

\* S3DefaultAuth._extract_bucket: no bucket (<<>>) when the host is not one of
\* S3, the subdomain before 's3' when there is one, else the first part of the path
_extract_bucket(req) ==
    CASE req.netloc = "b1.s3.amazonaws.com" -> <<"b1">>
      [] req.netloc = "s3-us-west-2.amazonaws.com" ->
           IF Len(req.path) >= 2 THEN <<req.path[2]>> ELSE <<>>
      [] OTHER -> <<>>

\* S3DefaultAuth.__call__: the signer of the bucket, <<>> if there is none
S3Leaf(req, bucketToAuth) ==
    LET bucket == _extract_bucket(req)
    IN IF bucket # <<>> /\ bucket[1] \in DOMAIN bucketToAuth
       THEN bucketToAuth[bucket[1]] ELSE <<>>

\* BasicDefaultAuth.__call__: the signer of the host, <<>> if there is none
BasicLeaf(req, basicAuths) ==
    IF req.netloc \in DOMAIN basicAuths THEN basicAuths[req.netloc] ELSE <<>>

\* the signers a call of s goes through, in order; for DefaultAuth,
\* `self._s3(self._basic(req))`
Leaves(s, req, bucketToAuth, basicAuths) ==
    IF s.class = "DefaultAuth"
    THEN SelectSeq(<<BasicLeaf(req, basicAuths), S3Leaf(req, bucketToAuth)>>,
                   LAMBDA l : l # <<>>)
    ELSE <<s>>

\* a signer that is not DefaultAuth is called with the credentials creds (of
\* use to S3RoleAuth only)
CallLeaf(s, creds, req) ==
    CASE s.class = "S3Auth" -> S3Sign(s.a, s.b, <<>>, req)
      [] s.class = "S3RoleAuth" -> S3Sign(creds[1], creds[2], creds[3], req)
      [] s.class = "HTTPBasicAuth" -> BasicSign(s.a, s.b, req)

RECURSIVE CallLeaves(_, _, _)
CallLeaves(leaves, creds, req) ==
    IF leaves = <<>> THEN req
    ELSE CallLeaves(Tail(leaves), creds, CallLeaf(Head(leaves), creds, req))

-----------------------------------------------------------------------------
(* Inputs: Authentication sections, requests *)

\* the entries of an Authentication section
AuthEntries ==
    { ("type" :> <<"S3">>) @@ ("accessKeyId" :> <<"AK1">>) @@ ("secretKey" :> <<"SK1">>)
          @@ ("buckets" :> <<"str", "b1">>),
      ("type" :> <<"s3">>) @@ ("accessKeyId" :> <<"AK2">>) @@ ("secretKey" :> <<"SK2">>),
      ("type" :> <<"s3">>) @@ ("roleName" :> <<"r1">>) @@ ("buckets" :> <<"list", "b1", "b2">>),
      ("type" :> <<"S3">>) @@ ("roleName" :> <<"r2">>),
      ("type" :> <<"s3">>) @@ ("accessKeyId" :> <<"AK1">>) @@ ("roleName" :> <<"r1">>),
      ("type" :> <<"s3">>) @@ ("buckets" :> <<"str", "b2">>),
      ("type" :> <<"s3">>) @@ ("secretKey" :> <<"SK1">>),
      ("type" :> <<"Basic">>) @@ ("username" :> <<"u">>) @@ ("password" :> <<"p">>)
          @@ ("uris" :> <<"str", "example.com">>),
      ("type" :> <<"basic">>) @@ ("uris" :> <<"list", "example.com", "b1.s3.amazonaws.com">>),
      ("type" :> <<"ldap">>) @@ ("username" :> <<"u">>),
      ("roleName" :> <<"r1">>) @@ ("buckets" :> <<"str", "b1">>) }

AuthKeys == { <<"k1">>, <<"k2">> }

\* the entries that every other entry is put together with
PairedEntries ==
    { e \in AuthEntries :
        \/ "type" \in DOMAIN e /\ e["type"] = <<"ldap">>
        \/ DOMAIN e = {"type", "buckets"}
        \/ DOMAIN e = {"type", "roleName", "buckets"}
        \/ DOMAIN e = {"type", "accessKeyId", "secretKey", "buckets"} }

\* the Authentication sections: none, one or two entries
AuthModels ==
    { <<"k1">> :> e : e \in AuthEntries }
    \cup { (<<"k1">> :> e1) @@ (<<"k2">> :> e2) : e1 \in PairedEntries, e2 \in AuthEntries }
    \cup { EmptyFcn }

\* the keys get_auth is asked for: the keys of the section, the empty key, None
\* and a key that is in no section
AskedKeys == { PyStr(k) : k \in AuthKeys \cup { <<>>, <<"k9">> } } \cup { None }

Roles == { <<"r1">>, <<"r2">> }

SignedRequests ==
    { Request("b1.s3.amazonaws.com", <<"/", "key">>),
      Request("s3-us-west-2.amazonaws.com", <<"/", "b2", "/", "key">>),
      Request("example.com", <<"/", "f">>) }

\* get_role_creds returns, or raises what the last of its tries raised
CredsOutcomes == { "return", "raise" }

-----------------------------------------------------------------------------
(* cfnbootstrap/auth.py: AuthenticationConfig *)

\* the signer an entry is registered with, <<>> for an entry that is dropped
\* with a warning
SignerOf(config) ==
    LET configType == ConfigGet(config, "type", <<>>)
    IN IF lowerType(configType) = <<"s3">>
       THEN IF "accessKeyId" \in DOMAIN config /\ "secretKey" \in DOMAIN config
            THEN S3Auth(config["accessKeyId"], config["secretKey"])
            ELSE IF "roleName" \in DOMAIN config
            THEN S3RoleAuth(config["roleName"])
            ELSE <<>>
       ELSE IF lowerType(configType) = <<"basic">>
       THEN HTTPBasicAuth(ConfigGet(config, "username", None),
                          ConfigGet(config, "password", None))
       ELSE <<>>

\* AuthenticationConfig.get_auth
get_auth(key, auths) ==
    IF ~Truthy(key) \/ key[2] \notin DOMAIN auths THEN DefaultAuth ELSE auths[key[2]]

InitAuth ==
    /\ auth_model \in AuthModels
    /\ apc = "new"
    /\ auth_order = <<>>
    /\ ak = 1
    /\ _auths = <<>>
    /\ _bucketToAuth = <<>>
    /\ basic_auths = <<>>
    /\ warnings = {}
    /\ signer = <<>>
    /\ metadata_creds = [ r \in Roles |-> 1 ]
    /\ fetches = 0
    /\ role_calls = 0
    /\ sign_calls = 0
    /\ fetched_creds = <<>>
    /\ signed = <<>>
    /\ HupIdle
    /\ BuildIdle
    /\ RetryIdle
    /\ FetchIdle
    /\ CmdIdle
    /\ SrcIdle
    /\ YumIdle
    /\ ExtractIdle
    /\ JsonIdle
    /\ RpmIdle

\* AuthenticationConfig.__init__ up to the for loop
BeginAuthentication ==
    /\ apc = "new"
    /\ apc' = "constructing"
    /\ auth_order' \in Arrangements(DOMAIN auth_model)
    /\ _auths' = EmptyFcn
    /\ _bucketToAuth' = EmptyFcn
    /\ basic_auths' = EmptyFcn
    /\ UNCHANGED <<auth_model, ak, warnings, signer, metadata_creds, fetches, role_calls,
                   sign_calls, fetched_creds, signed>>
    /\ UNCHANGED notAuthVars

\* one iteration of `for key, config in model.iteritems()`
RegisterEntry ==
    /\ apc = "constructing"
    /\ ak <= Len(auth_order)
    /\ LET key == auth_order[ak]
           config == auth_model[key]
           auth_impl == SignerOf(config)
       IN /\ ak' = ak + 1
          /\ IF auth_impl = <<>>
             THEN /\ warnings' = warnings \cup {key}
                  /\ UNCHANGED <<_auths, _bucketToAuth, basic_auths>>
             ELSE /\ _auths' = (key :> auth_impl) @@ _auths
                  /\ _bucketToAuth' =
                       IF auth_impl.class # "HTTPBasicAuth" /\ "buckets" \in DOMAIN config
                       THEN [ b \in { NamesOf(config["buckets"])[i] :
                                        i \in DOMAIN NamesOf(config["buckets"]) } |->
                                auth_impl ] @@ _bucketToAuth
                       ELSE _bucketToAuth
                  /\ basic_auths' =
                       IF auth_impl.class = "HTTPBasicAuth" /\ "uris" \in DOMAIN config
                       THEN [ u \in { NamesOf(config["uris"])[i] :
                                        i \in DOMAIN NamesOf(config["uris"]) } |->
                                auth_impl ] @@ basic_auths
                       ELSE basic_auths
                  /\ UNCHANGED warnings
    /\ UNCHANGED <<auth_model, apc, auth_order, signer, metadata_creds, fetches, role_calls,
                   sign_calls, fetched_creds, signed>>
    /\ UNCHANGED notAuthVars

\* the loop is over: `self._defaultAuth = DefaultAuth(s3Auth, basicAuth)`
FinishAuthentication ==
    /\ apc = "constructing"
    /\ ak > Len(auth_order)
    /\ apc' = "constructed"
    /\ UNCHANGED <<auth_model, auth_order, ak, _auths, _bucketToAuth, basic_auths, warnings,
                   signer, metadata_creds, fetches, role_calls, sign_calls, fetched_creds,
                   signed>>
    /\ UNCHANGED notAuthVars

\* a tool asks for the signer of a key
GetAuth ==
    /\ apc = "constructed"
    /\ \E key \in AskedKeys :
         signer' = [key |-> key, auth |-> get_auth(key, _auths)]
    /\ UNCHANGED <<auth_model, apc, auth_order, ak, _auths, _bucketToAuth, basic_auths,
                   warnings, metadata_creds, fetches, role_calls, sign_calls, fetched_creds,
                   signed>>
    /\ UNCHANGED notAuthVars

\* the role signers among the signers a call goes through
RoleLeaves(leaves) == SelectSeq(leaves, LAMBDA l : l.class = "S3RoleAuth")

\* the signer is called with a request, as requests does for each request it
\* sends, the first time or again; a role signer calls get_role_creds, which
\* returns what the metadata serves or raises
CallSigner ==
    /\ apc = "constructed"
    /\ signer # <<>>
    /\ sign_calls < MaxSigns
    /\ sign_calls' = sign_calls + 1
    /\ \E req \in SignedRequests, outcome \in CredsOutcomes :
         LET leaves == Leaves(signer.auth, req, _bucketToAuth, basic_auths)
             roles == RoleLeaves(leaves)
         IN IF roles = <<>>
            THEN /\ outcome = "return"
                 /\ signed' = CallLeaves(leaves, <<>>, req)
                 /\ UNCHANGED <<fetches, role_calls, fetched_creds>>
            ELSE /\ role_calls' = role_calls + 1
                 /\ IF outcome = "raise"
                    THEN /\ fetches' = fetches + 1
                         /\ fetched_creds' = <<>>
                         /\ signed' = <<>>
                    ELSE \E got \in {CredsForSigning(roles[1].a, fetched_creds,
                                                      metadata_creds)} :
                         /\ fetches' = fetches + got[1]
                         /\ fetched_creds' = got[2]
                         /\ signed' = CallLeaves(leaves, got[2], req)
    /\ UNCHANGED <<auth_model, apc, auth_order, ak, _auths, _bucketToAuth, basic_auths,
                   warnings, signer, metadata_creds>>
    /\ UNCHANGED notAuthVars

\* the instance metadata gives a role new credentials
Rotations == metadata_creds[<<"r1">>] + metadata_creds[<<"r2">>] - 2

RotateCredentials ==
    /\ apc = "constructed"
    /\ Rotations < MaxRotations
    /\ \E r \in Roles : metadata_creds' = [metadata_creds EXCEPT ![r] = @ + 1]
    /\ UNCHANGED <<auth_model, apc, auth_order, ak, _auths, _bucketToAuth, basic_auths,
                   warnings, signer, fetches, role_calls, sign_calls, fetched_creds, signed>>
    /\ UNCHANGED notAuthVars

NextAuth ==
    \/ BeginAuthentication
    \/ RegisterEntry
    \/ FinishAuthentication
    \/ GetAuth
    \/ CallSigner
    \/ RotateCredentials

SpecAuth == InitAuth /\ [][NextAuth]_vars

-----------------------------------------------------------------------------
(* Properties of AuthenticationConfig and of the role signer *)

\* the type of an entry is S3, or basic, in any case
S3Typed(config) == "type" \in DOMAIN config /\ config["type"] \in {<<"S3">>, <<"s3">>}
BasicTyped(config) ==
    "type" \in DOMAIN config /\ config["type"] \in {<<"Basic">>, <<"basic">>, <<"BASIC">>}

\* an S3 entry names a key pair
HasKeyPair(config) == {"accessKeyId", "secretKey"} \subseteq DOMAIN config

\* the entries that are to be registered
Kept(config) ==
    \/ S3Typed(config) /\ (HasKeyPair(config) \/ "roleName" \in DOMAIN config)
    \/ BasicTyped(config)

\* the keys of the entries the for loop has gone through
SeenKeys == { auth_order[i] : i \in 1..(ak - 1) }

\* C33: an entry of an unrecognised type, and an S3 entry with neither a key
\* pair nor a roleName, is dropped with a warning, nothing is raised, and every
\* other entry is registered under its key with the signer of its kind;
\* get_auth(key) returns the signer registered under key, and the default
\* composite signer when key is empty, None or not registered
C33_DroppedEntriesAndGetAuth ==
    /\ apc \in {"new", "constructing", "constructed"}
    /\ apc \in {"constructing", "constructed"} =>
          /\ DOMAIN _auths = { k \in SeenKeys : Kept(auth_model[k]) }
          /\ warnings = { k \in SeenKeys : ~Kept(auth_model[k]) }
          /\ \A k \in DOMAIN _auths :
                LET config == auth_model[k]
                IN IF BasicTyped(config) THEN _auths[k].class = "HTTPBasicAuth"
                   ELSE IF HasKeyPair(config)
                   THEN /\ _auths[k].class = "S3Auth"
                        /\ _auths[k].a = config["accessKeyId"]
                        /\ _auths[k].b = config["secretKey"]
                   ELSE /\ _auths[k].class = "S3RoleAuth"
                        /\ _auths[k].a = config["roleName"]
    /\ apc = "constructed" => SeenKeys = DOMAIN auth_model
    /\ signer # <<>> =>
          IF signer.key = None \/ signer.key = PyStr(<<>>)
          THEN signer.auth = DefaultAuth
          ELSE IF signer.key[2] \in DOMAIN _auths
          THEN signer.auth = _auths[signer.key[2]]
          ELSE signer.auth = DefaultAuth

\* the entry k1 of an unknown type came first and was dropped, the role entry
\* k2 after it was registered, and get_auth('k2') has returned its signer
C33_Witness ==
    /\ apc = "constructed"
    /\ auth_order = << <<"k1">>, <<"k2">> >>
    /\ "type" \in DOMAIN auth_model[<<"k1">>]
    /\ auth_model[<<"k1">>]["type"] = <<"ldap">>
    /\ warnings = { <<"k1">> }
    /\ signer # <<>>
    /\ signer.key = PyStr(<<"k2">>)
    /\ signer.auth = S3RoleAuth(<<"r1">>)

\* get_auth('k1') has returned the default signer, because the S3 entry k1 has
\* neither a key pair nor a roleName
C33_WitnessDefault ==
    /\ apc = "constructed"
    /\ DOMAIN auth_model = { <<"k1">>, <<"k2">> }
    /\ DOMAIN auth_model[<<"k1">>] = {"type", "buckets"}
    /\ signer # <<>>
    /\ signer.key = PyStr(<<"k1">>)
    /\ signer.auth = DefaultAuth
    /\ <<"k2">> \in DOMAIN _auths

\* the role whose signer the call that gave `signed` went through last
RoleSignedWith(s) ==
    RoleLeaves(Leaves(signer.auth, Request(s.netloc, s.path), _bucketToAuth, basic_auths))

\* C34: every call of a role signer calls get_role_creds once, so that the
\* calls of get_role_creds are as many as the calls of role signers, and the
\* request it returns is signed with what the instance metadata serves for
\* the role at that call
C34_CredentialsFetchedPerCall ==
    [][ /\ fetches' - fetches = role_calls' - role_calls
        /\ role_calls' = role_calls + 1 =>
              \/ signed' = <<>>
              \/ /\ signed' # <<>>
                 /\ RoleSignedWith(signed') # <<>>
                 /\ LET name == RoleSignedWith(signed')[1].a
                        role == RoleCreds(name, metadata_creds[name])
                    IN /\ signed'.headers["Authorization"]
                            = <<"AWS", role.AccessKeyId, role.SecretAccessKey>>
                       /\ signed'.headers["x-amz-security-token"] = role.Token ]_vars

\* the signer of role r1 has been called three times, twice before the
\* metadata gave the role new credentials; the request it returned last is
\* signed with the new ones
C34_Witness ==
    /\ role_calls = 3
    /\ fetches = 3
    /\ signer.auth = S3RoleAuth(<<"r1">>)
    /\ metadata_creds[<<"r1">>] = 2
    /\ signed # <<>>
    /\ signed.headers["Authorization"][2] = <<"access", <<"r1">>, 2>>

-----------------------------------------------------------------------------
(* cfnbootstrap/json_file_manager.py: create, write, setSafeMode *)

\* the bits of a mode: 0 for others' execute up to 11 for set-user-id
ModeBits == 0..11

\* the mode 0600 of setSafeMode
SafeMask == 384

\* the mode open() asks for when it creates a file
OpenMode == 438

\* a & b on modes
RECURSIVE BitAnd(_, _)
BitAnd(a, b) ==
    IF a = 0 \/ b = 0 THEN 0
    ELSE (a % 2) * (b % 2) + 2 * BitAnd(a \div 2, b \div 2)

\* a & ~b on modes
RECURSIVE BitClear(_, _)
BitClear(a, b) ==
    IF a = 0 THEN 0
    ELSE (a % 2) * (1 - (b % 2)) + 2 * BitClear(a \div 2, b \div 2)

\* SafeMode of a manager that sets the mode to 0600
SafeModeIs0600(mode) == SafeMask

\* setSafeMode: `currentFileMode & 0600`
SafeMode(mode) == BitAnd(mode, SafeMask)

\* open(fullname, 'w') is allowed: the file is written by root, by its owner
\* with the owner's write bit, by another user with the others' write bit; a
\* file that does not exist is created
MayOpenForWriting(mode, owned, root) ==
    \/ mode = -1
    \/ root
    \/ owned /\ BitAnd(mode, 128) # 0
    \/ ~owned /\ BitAnd(mode, 2) # 0

\* os.chmod is allowed: to root and to the owner
MayChmod(owned, root) == root \/ owned

\* the modes the state file may have before a call
FileModes ==
    { -1, 0, 4, 32, 48, 128, 256, 292, 308, 384, 416, 420, 432, 438, 448, 493, 511,
      1023, 2484, 4095 }

Umasks == { 0, 18, 63, 127 }

InitJson ==
    /\ file_mode \in FileModes
    /\ file_owned \in BOOLEAN
    /\ file_mode = -1 => file_owned
    /\ umask \in Umasks
    /\ privileged \in BOOLEAN
    /\ jpc = "none"
    /\ json_call = ""
    /\ currentFileMode = -1
    /\ HupIdle
    /\ BuildIdle
    /\ RetryIdle
    /\ FetchIdle
    /\ CmdIdle
    /\ SrcIdle
    /\ YumIdle
    /\ ExtractIdle
    /\ AuthIdle
    /\ RpmIdle

\* the file after open(fullname, 'w'): a new one has the mode 0666 without the
\* bits of the umask, an old one keeps its mode
Opened(mode) == IF mode = -1 THEN BitClear(OpenMode, umask) ELSE mode

\* setSafeMode on a file of the mode `mode`, or OSError from os.chmod
SetSafeMode(mode, owned) ==
    /\ currentFileMode' = mode
    /\ IF MayChmod(owned, privileged)
       THEN file_mode' = SafeMode(mode) /\ jpc' = "returned"
       ELSE file_mode' = mode /\ jpc' = "raised"

\* create(directory, filename)
Create ==
    /\ json_call' = "create"
    /\ file_owned' = (file_mode = -1 \/ file_owned)
    /\ SetSafeMode(Opened(file_mode), file_mode = -1 \/ file_owned)
    /\ UNCHANGED <<umask, privileged>>
    /\ UNCHANGED notJsonVars

\* write(directory, filename, metadata)
Write ==
    /\ json_call' = "write"
    /\ IF MayOpenForWriting(file_mode, file_owned, privileged)
       THEN /\ file_owned' = (file_mode = -1 \/ file_owned)
            /\ SetSafeMode(Opened(file_mode), file_mode = -1 \/ file_owned)
       ELSE /\ jpc' = "raised"
            /\ currentFileMode' = -1
            /\ UNCHANGED <<file_mode, file_owned>>
    /\ UNCHANGED <<umask, privileged>>
    /\ UNCHANGED notJsonVars

\* someone changes the mode of the state file between two calls
Chmod ==
    /\ file_mode # -1
    /\ jpc # "none"
    /\ file_mode' \in FileModes \ {-1}
    /\ jpc' = "none"
    /\ json_call' = ""
    /\ currentFileMode' = -1
    /\ UNCHANGED <<file_owned, umask, privileged>>
    /\ UNCHANGED notJsonVars

NextJson == Create \/ Write \/ Chmod

SpecJson == InitJson /\ [][NextJson]_vars

-----------------------------------------------------------------------------
(* Properties of the mode of the state file *)

\* the bits that are set in a mode
BitsOf(mode) == { i \in ModeBits : (mode \div (2^i)) % 2 = 1 }

\* the owner's read and write bits
OwnerReadWrite == {7, 8}

\* C35: when create or write has returned, the state file has no bit outside
\* 0600, so none for the group or for others, whatever its mode was; its bits
\* are those of 0600 that it had when setSafeMode read the mode, so the call
\* has cleared bits and added none
C35_SafeModeOnlyClearsBits ==
    jpc = "returned" =>
        /\ file_mode # -1
        /\ currentFileMode # -1
        /\ BitsOf(file_mode) \subseteq OwnerReadWrite
        /\ BitsOf(file_mode) \cap (0..5) = {}
        /\ BitsOf(file_mode) \subseteq BitsOf(currentFileMode)
        /\ BitsOf(file_mode) = BitsOf(currentFileMode) \cap OwnerReadWrite

\* write has returned on a file that was 0464 (the owner could not write it,
\* root can): the mode is 0400, the owner's write bit was not added
C35_Witness ==
    /\ jpc = "returned"
    /\ json_call = "write"
    /\ currentFileMode = 308
    /\ file_mode = 256
    /\ privileged

-----------------------------------------------------------------------------
(* cfnbootstrap/rpm_tools.py: RpmTool *)

\* the return code of `rpm -qp ... pkg`: not 0 when the RPM cannot be read
QueryReturncode(pkg, found) == IF found[pkg] = "unreadable" THEN 1 ELSE 0

\* the return code of `rpm -q --quiet` for the package a readable RPM holds
TestReturncode(pkg, found) == IF found[pkg] = "installed" THEN 0 ELSE 1

\* RpmTool._is_installed: `return True` when the query fails, else whether
\* `rpm -q` found the package
_is_installed(pkg, found) ==
    IF QueryReturncode(pkg, found) # 0 THEN TRUE
    ELSE TestReturncode(pkg, found) = 0

\* RpmTool._package_filter
_package_filter(pkg, found) ==
    IF pkg = "" THEN FALSE
    ELSE IF _is_installed(pkg, found) THEN FALSE
    ELSE TRUE

\* the rpm commands _package_filter runs for a location
FilterCalls(pkg, found) ==
    IF pkg = "" THEN <<>>
    ELSE IF QueryReturncode(pkg, found) # 0
    THEN << <<"rpm -qp", <<pkg>>, QueryReturncode(pkg, found)>> >>
    ELSE << <<"rpm -qp", <<pkg>>, 0>>, <<"rpm -q", <<pkg>>, TestReturncode(pkg, found)>> >>

\* `[loc] if isinstance(loc, basestring) else loc`
pkgs_to_process(loc) == Tail(loc)

RECURSIVE FlatCalls(_, _)
FlatCalls(locs, found) ==
    IF locs = <<>> THEN <<>>
    ELSE FilterCalls(Head(locs), found) \o FlatCalls(Tail(locs), found)

-----------------------------------------------------------------------------
(* Inputs: rpm sections and what rpm finds at the locations *)

Locations == { "x.rpm", "y.rpm" }

\* the rpm sections: a location as a string, the empty string, lists
RpmActions ==
    { EmptyFcn,
      "a" :> <<"str", "x.rpm">>,
      "a" :> <<"str", "">>,
      "a" :> <<"list", "x.rpm", "y.rpm">>,
      "a" :> <<"list">>,
      ("a" :> <<"str", "x.rpm">>) @@ ("b" :> <<"str", "y.rpm">>),
      ("a" :> <<"list", "y.rpm", "">>) @@ ("b" :> <<"str", "x.rpm">>) }

RpmHosts == [ Locations -> {"unreadable", "installed", "missing"} ]

InitRpm ==
    /\ rpm_action \in RpmActions
    /\ rpm_host \in RpmHosts
    /\ rpm_pc = "called"
    /\ rpm_order = <<>>
    /\ rk = 1
    /\ rpm_pkgs = <<>>
    /\ rpms_changed = <<>>
    /\ rpm_calls = <<>>
    /\ rpm_result = <<>>
    /\ HupIdle
    /\ BuildIdle
    /\ RetryIdle
    /\ FetchIdle
    /\ CmdIdle
    /\ SrcIdle
    /\ YumIdle
    /\ ExtractIdle
    /\ AuthIdle
    /\ JsonIdle

\* apply up to the for loop
CallRpm ==
    /\ rpm_pc = "called"
    /\ IF DOMAIN rpm_action = {}
       THEN /\ rpm_pc' = "returned"
            /\ rpm_result' = <<"return", <<>>>>
            /\ UNCHANGED rpm_order
       ELSE /\ rpm_pc' = "filtering"
            /\ rpm_order' \in Arrangements(DOMAIN rpm_action)
            /\ UNCHANGED rpm_result
    /\ UNCHANGED <<rpm_action, rpm_host, rk, rpm_pkgs, rpms_changed, rpm_calls>>
    /\ UNCHANGED notRpmVars

\* one iteration of `for pkg_name, loc in action.iteritems()`
FilterRpm ==
    /\ rpm_pc = "filtering"
    /\ rk <= Len(rpm_order)
    /\ LET pkg_name == rpm_order[rk]
           locs == pkgs_to_process(rpm_action[pkg_name])
           pkgs_filtered == SelectSeq(locs, LAMBDA pkg_key : _package_filter(pkg_key, rpm_host))
       IN /\ rpm_calls' = rpm_calls \o FlatCalls(locs, rpm_host)
          /\ rpm_pkgs' = rpm_pkgs \o pkgs_filtered
          /\ rpms_changed' = IF pkgs_filtered # <<>> THEN Append(rpms_changed, pkg_name)
                             ELSE rpms_changed
    /\ rk' = rk + 1
    /\ UNCHANGED <<rpm_action, rpm_host, rpm_pc, rpm_order, rpm_result>>
    /\ UNCHANGED notRpmVars

\* after the loop: nothing to install, or the one `rpm -U` of all the RPMs kept
InstallRpms ==
    /\ rpm_pc = "filtering"
    /\ rk > Len(rpm_order)
    /\ IF rpm_pkgs = <<>>
       THEN /\ rpm_pc' = "returned"
            /\ rpm_result' = <<"return", <<>>>>
            /\ UNCHANGED rpm_calls
       ELSE \E returncode \in {0, 1} :
            /\ rpm_calls' = Append(rpm_calls, <<"rpm -U", rpm_pkgs, returncode>>)
            /\ IF returncode # 0
               THEN rpm_pc' = "raised" /\ rpm_result' = <<"raise", <<"ToolError">>>>
               ELSE rpm_pc' = "returned" /\ rpm_result' = <<"return", rpms_changed>>
    /\ UNCHANGED <<rpm_action, rpm_host, rpm_order, rk, rpm_pkgs, rpms_changed>>
    /\ UNCHANGED notRpmVars

NextRpm == CallRpm \/ FilterRpm \/ InstallRpms

SpecRpm == InitRpm /\ [][NextRpm]_vars

-----------------------------------------------------------------------------
(* Properties of RpmTool *)

\* the locations named for a package
LocationsOf(pkg_name) ==
    { pkgs_to_process(rpm_action[pkg_name])[i] :
        i \in DOMAIN pkgs_to_process(rpm_action[pkg_name]) }

\* the packages with a location whose `rpm -qp` query has failed
QueryFailed ==
    { n \in DOMAIN rpm_action :
        \E l \in LocationsOf(n) : l # "" /\ rpm_host[l] = "unreadable" }

\* the locations handed to `rpm -U`
Upgraded ==
    UNION { { rpm_calls[i][2][j] : j \in DOMAIN rpm_calls[i][2] } :
            i \in { k \in DOMAIN rpm_calls : rpm_calls[k][1] = "rpm -U" } }

\* C36: when apply is over, every location whose `rpm -qp` query failed is in
\* the `rpm -U` batch, and when apply has returned the name of its package is
\* among the changed ones
C36_QueryFailureInstalls ==
    rpm_pc \in {"returned", "raised"} =>
        /\ \A n \in QueryFailed : \A l \in LocationsOf(n) :
              (l # "" /\ rpm_host[l] = "unreadable") => l \in Upgraded
        /\ rpm_pc = "returned" =>
              \A n \in QueryFailed : \E i \in DOMAIN rpm_result[2] : rpm_result[2][i] = n

\* what the code does instead: a location whose query failed is taken for
\* installed, is never handed to `rpm -U`, and by itself does not make its
\* package count as changed
C36_QueryFailureSkips ==
    /\ \A i \in DOMAIN rpm_calls : rpm_calls[i][1] = "rpm -U" =>
          \A j \in DOMAIN rpm_calls[i][2] : rpm_host[rpm_calls[i][2][j]] = "missing"
    /\ rpm_pc = "returned" =>
          \A i \in DOMAIN rpm_result[2] :
              \E l \in LocationsOf(rpm_result[2][i]) : l # "" /\ rpm_host[l] = "missing"

\* apply has returned [] without running `rpm -U`, although the query of the
\* one location of the section had failed
C36_Witness ==
    /\ rpm_pc = "returned"
    /\ rpm_action = "a" :> <<"str", "x.rpm">>
    /\ rpm_host["x.rpm"] = "unreadable"
    /\ rpm_calls = << <<"rpm -qp", <<"x.rpm">>, 1>> >>
    /\ rpm_result = <<"return", <<>>>>

-----------------------------------------------------------------------------
(* Further properties of the hook loop *)

-----------------------------------------------------------------------------
(* HookProcessor with hooks whose names and paths contain the separator *)

\* a path into the metadata whose fourth segment is "x|Resources": the text
\* of PathMetadataX, a "|", and the text of PathMetadata
PathMetadataXBar == PathMetadataX \o <<"|">> \o PathMetadata

\* a hook name that ends with "|" and the text of PathMetadataX
HookNameBar(i) == HookName(i) \o <<"|">> \o PathMetadataX

\* two hooks that differ in name and in path, for which
\* hook.name + '|' + hook.path is the same string, in either order
SharedKeyLists ==
    UNION { { <<Hook(HookNameBar(1), t, PathMetadata), Hook(HookName(1), u, PathMetadataXBar)>>,
              <<Hook(HookName(1), u, PathMetadataXBar), Hook(HookNameBar(1), t, PathMetadata)>> } :
            t \in {{}, {"post.add", "post.update"}}, u \in {{}, {"post.remove"}} }

\* the processor is constructed with any list of Hook objects
InitHupKeys ==
    /\ hooks \in MultiHookLists \cup SharedKeyLists
    /\ disk = EmptyFcn
    /\ shelf = EmptyFcn
    /\ resource_cache = EmptyFcn
    /\ pc = "idle"
    /\ idx = 1
    /\ log = [i \in 1..Len(hooks) |-> NoEntry]
    /\ prev = [i \in 1..Len(hooks) |-> Summary(NoEntry)]
    /\ fetched = EmptyFcn
    /\ polls = 0
    /\ BuildIdle
    /\ RetryIdle
    /\ FetchIdle
    /\ CmdIdle
    /\ SrcIdle
    /\ YumIdle
    /\ ExtractIdle
    /\ AuthIdle
    /\ JsonIdle
    /\ RpmIdle

SpecHupKeys == InitHupKeys /\ [][NextHup]_vars

-----------------------------------------------------------------------------
(* Properties of the store entries a hook touches *)

\* the for loop is about to process hooks[idx]
AboutToProcess == pc = "running" /\ idx <= Len(hooks)

\* the entry stored under key k is the same before and after the step
SameEntry(k) ==
    /\ k \in DOMAIN shelf <=> k \in DOMAIN shelf'
    /\ ShelfGet(shelf, k) = ShelfGet(shelf', k)

\* C38 as stated: processing a hook leaves unchanged the entry of every other
\* hook that has a different name or a different path
C38_AsStated ==
    [][AboutToProcess =>
          \A j \in HookIdx :
              (hooks[j].name # hooks[idx].name \/ hooks[j].path # hooks[idx].path)
                  => SameEntry(KeyOf(j))]_vars

\* C38: processing a hook reads and writes only the store entry keyed
\* hook.name + '|' + hook.path: the old value it compares with is the one
\* stored under that key, every entry stored under another key, and so the
\* entry of every hook for which name + '|' + path is a different string, is
\* unchanged, and if processing the hook raises an exception the whole store,
\* the hook's own entry included, is unchanged
C38_FrameByKey ==
    [][AboutToProcess =>
          /\ log'[idx].observed => log'[idx].old = ShelfGet(shelf, KeyOf(idx))
          /\ \A k \in DOMAIN shelf \cup DOMAIN shelf' : k # KeyOf(idx) => SameEntry(k)
          /\ \A j \in HookIdx : KeyOf(j) # KeyOf(idx) => SameEntry(KeyOf(j))
          /\ log'[idx].outcome = "raised" =>
                /\ shelf' = shelf
                /\ SameEntry(KeyOf(idx))]_vars

\* a hook has stored the value it observed, and a later hook of the list, with
\* another key, has found its action could not be launched: its entry, and
\* the entry of the first, are what they were before it was processed
C38_Witness ==
    \E i, j \in HookIdx :
        /\ i < j
        /\ pc = "running"
        /\ idx = j + 1
        /\ KeyOf(i) # KeyOf(j)
        /\ log[i].outcome \in {"nochange", "fired"}
        /\ Truthy(log[i].new)
        /\ Holds(shelf, i, log[i].new)
        /\ log[j].outcome = "raised"
        /\ log[j].run
        /\ Truthy(log[j].old)
        /\ Holds(shelf, j, log[j].old)

\* two hooks that differ in name and path have the same key: the first has
\* stored the metadata under it and the second has replaced it with None
C38_WitnessSharedKey ==
    /\ pc = "running"
    /\ Len(hooks) = 2
    /\ idx = 3
    /\ hooks[1].name # hooks[2].name
    /\ hooks[1].path # hooks[2].path
    /\ KeyOf(1) = KeyOf(2)
    /\ log[1].outcome = "nochange"
    /\ Truthy(log[1].new)
    /\ log[2].observed
    /\ log[2].old = log[1].new
    /\ Holds(shelf, 2, None)

-----------------------------------------------------------------------------
(* Further properties of the construction engine *)

\* the configSets referenced by an uncollapsed list
RawRefs(configList) ==
    { configList[i][2] : i \in { j \in 1..Len(configList) : configList[j][1] # "ConfigDefinition" } }

\* a collapsed list holds ConfigDefinitions only
DefinitionsOnly(configList) ==
    \A i \in 1..Len(configList) : configList[i][1] = "ConfigDefinition"

\* what Contractor() may raise; build raises NoSuchConfigSetError and what
\* the tools raise
ConstructionErrors ==
    {"CircularConfigSetDependencyError", "ValueError", "NoSuchConfigurationError"}

MissingAt == { k \in 1..Len(request) : request[k] \notin DOMAIN configSets }

\* the places of the build that lie in the names before position k
PlacesBefore(k) ==
    UNION { UNION { { <<s, p, c>> :
                        c \in ToolSections(ConfigOf(model, configSets[request[s]][p][2])) } :
                    p \in 1..Len(configSets[request[s]]) } :
            s \in 1..(k - 1) }

\* the places at which a tool has been applied
PlacesRun == { <<ran[i].set, ran[i].pos, ran[i].category>> : i \in 1..Len(ran) }

\* C40: build checks the requested names lazily: for a list whose first
\* missing name is at position k, no tool is ever run for a name at or after
\* position k, build never returns, and NoSuchConfigSetError is raised only
\* when the loop is at position k, after a tool has been applied, and has
\* returned, at every place of every config of the names before position k
C40_LazyNameCheck ==
    \A k \in MissingAt :
        (\A j \in MissingAt : k <= j) =>
            /\ \A i \in 1..Len(ran) : ran[i].set < k
            /\ si <= k
            /\ bpc # "built"
            /\ berr = "NoSuchConfigSetError" =>
                  /\ bpc = "raised"
                  /\ si = k
                  /\ PlacesRun = PlacesBefore(k)
                  /\ \A i \in 1..Len(ran) : ran[i].outcome[1] = "return"
            /\ (bpc = "raised" /\ berr # "NoSuchConfigSetError") =>
                  /\ ran # <<>>
                  /\ ran[Len(ran)].outcome = <<"raise", berr>>

\* build(['A', 'nosuch', 'B']) has raised NoSuchConfigSetError after the tools
\* of A's configs were applied; no tool was applied for B, which exists
C40_Witness ==
    /\ request = <<"A", "nosuch", "B">>
    /\ "B" \in DOMAIN configSets
    /\ bpc = "raised"
    /\ berr = "NoSuchConfigSetError"
    /\ si = 2
    /\ Len(ran) >= 2
    /\ \A i \in 1..Len(ran) : ran[i].set = 1
    /\ PlacesRun = PlacesBefore(2)

====
